---- MODULE Spec2Model ----
(***************************************************************************)
(* State-machine model of the hiirc event dispatcher (src/src/core.rs):    *)
(* the channel/user store of Irc, the connection status, and               *)
(* Dispatch::feed with its per-code routines.                              *)
(*                                                                         *)
(* Text is modelled as a sequence of one-character strings, so that        *)
(* to_lowercase, split(" "), chars().next() and starts_with("#") are       *)
(* computed as the code computes them.  Option<T> is a sequence of length  *)
(* 0 (None) or 1 (Some).                                                   *)
(***************************************************************************)
EXTENDS Integers, Sequences, FiniteSets, TLC

VARIABLES
    channels,   \* Irc.channels : HashMap<String, Arc<Channel>>
    status,     \* Irc.status   : ConnectionStatus
    settings,   \* Dispatch.settings (auto_ident, auto_ping)
    ev,         \* the event handed to the last Dispatch::feed, or the
                \* call a handler's thread made since
    calls,      \* Listener callbacks invoked by the last feed, in order,
                \* so far when the feed is still under way
    sent,       \* lines handed to the Writer by the last step, in order,
                \* each with whether the Writer took it
    ret,        \* Option: what the last step returned, when it was a call
                \* made by a handler's thread or the return of dispatch
                \* itself
    reader,     \* the events the transport's Reader delivers, where a
                \* specification fixes them in advance
    taken,      \* how many events of reader the loop of dispatch has taken
    pc,         \* where dispatch stands: "start", "loop" or "done"
    held,       \* the locks of the store the dispatch thread holds, where
                \* a specification follows a feed lock by lock
    todo,       \* what is left of the feed under way: the writes of the
                \* store and the status still to come, each a critical
                \* section of its own; where a specification follows a
                \* feed lock by lock, its lock operations, callbacks and
                \* returns from callbacks, in program order
    kept        \* the Arc<Channel> and the Arc<ChannelUser> a handler's
                \* thread keeps from its last Irc::channel (or
                \* Irc::channels) and Channel::user

vars ==
    <<channels, status, settings, ev, calls, sent, ret, reader, taken, pc,
      held, todo, kept>>

----------------------------------------------------------------------------
(* Bounds *)

\* The store never holds more than this many members in all (guard of Feed).
MaxMembers == 2

\* The raw member tokens decoded on their own have at most this many
\* characters.
MaxTokenLen == 3

----------------------------------------------------------------------------
(* Text helpers *)

None == <<>>
Some(x) == <<x>>
IsSome(o) == Len(o) = 1
IsNone(o) == Len(o) = 0
Unwrap(o) == o[1]

\* Vec::get(i) with a 0-based index.
ArgGet(args, i) == IF i + 1 <= Len(args) THEN Some(args[i + 1]) ELSE None

\* Vec::last().
ArgLast(args) == IF Len(args) > 0 THEN Some(args[Len(args)]) ELSE None

ToLowerChar(c) ==
    CASE c = "A" -> "a"
      [] c = "B" -> "b"
      [] OTHER -> c

\* str::to_lowercase
to_lowercase(s) == [i \in 1..Len(s) |-> ToLowerChar(s[i])]

\* str::starts_with("#")
starts_with_hash(s) == Len(s) > 0 /\ s[1] = "#"

\* str::is_empty
is_empty(s) == Len(s) = 0

\* Index of the first " " in s, or 0.
RECURSIVE FirstSpace(_, _)
FirstSpace(s, i) ==
    IF i > Len(s) THEN 0
    ELSE IF s[i] = " " THEN i
    ELSE FirstSpace(s, i + 1)

\* str::split(" "): always at least one piece; empty pieces are kept.
RECURSIVE split(_)
split(s) ==
    LET p == FirstSpace(s, 1) IN
    IF p = 0 THEN <<s>>
    ELSE <<SubSeq(s, 1, p - 1)>> \o split(SubSeq(s, p + 1, Len(s)))

\* str::contains("\n") || str::contains("\r")
contains_linebreak(s) == \E i \in 1..Len(s) : s[i] \in {"\n", "\r"}

----------------------------------------------------------------------------
(* ChannelUser *)

Statuses == {"Normal", "Voice", "HalfOperator", "Operator", "Owner"}

ChannelUser_new(nickname, st) == [status |-> st, nickname |-> nickname]

\* A from_raw that reads the status off the sigil but keeps the sigil in
\* the nickname.
ChannelUser_from_raw_KeepSigil(raw) ==
    LET st == IF Len(raw) = 0 THEN "Normal"
              ELSE CASE raw[1] \in {"~", "&"} -> "Owner"
                     [] raw[1] = "%" -> "HalfOperator"
                     [] raw[1] = "@" -> "Operator"
                     [] raw[1] = "+" -> "Voice"
                     [] OTHER -> "Normal"
    IN  ChannelUser_new(raw, st)

\* A from_raw that strips every leading sigil, not just one.
RECURSIVE StripSigils(_)
StripSigils(raw) ==
    IF raw # <<>> /\ raw[1] \in {"~", "&", "%", "@", "+"}
    THEN StripSigils(Tail(raw))
    ELSE raw

ChannelUser_from_raw_AllSigils(raw) ==
    LET st == IF Len(raw) = 0 THEN "Normal"
              ELSE CASE raw[1] \in {"~", "&"} -> "Owner"
                     [] raw[1] = "%" -> "HalfOperator"
                     [] raw[1] = "@" -> "Operator"
                     [] raw[1] = "+" -> "Voice"
                     [] OTHER -> "Normal"
    IN  ChannelUser_new(StripSigils(raw), st)

ChannelUser_from_raw(raw) ==
    LET first == IF Len(raw) > 0 THEN Some(raw[1]) ELSE None
        st == IF IsNone(first) THEN "Normal"
              ELSE CASE Unwrap(first) = "~" -> "Owner"
                     [] Unwrap(first) = "&" -> "Owner"
                     [] Unwrap(first) = "%" -> "HalfOperator"
                     [] Unwrap(first) = "@" -> "Operator"
                     [] Unwrap(first) = "+" -> "Voice"
                     [] OTHER -> "Normal"
        nickname == IF st = "Normal" THEN raw ELSE SubSeq(raw, 2, Len(raw))
    IN  ChannelUser_new(nickname, st)

----------------------------------------------------------------------------
(* Channel *)

Channel_new(name) == [name |-> name, topic |-> None, users |-> <<>>]

\* Position of the first member with this nickname, or 0.
RECURSIVE Position(_, _, _)
Position(users, nickname, i) ==
    IF i > Len(users) THEN 0
    ELSE IF users[i].nickname = nickname THEN i
    ELSE Position(users, nickname, i + 1)

\* A lookup that compares the nicknames without regard to letter case.
Channel_user_IgnoreCase(c, nickname) ==
    LET hits == {i \in 1..Len(c.users) :
                    to_lowercase(c.users[i].nickname) = to_lowercase(nickname)}
    IN  IF hits = {} THEN None
        ELSE Some(c.users[CHOOSE i \in hits : \A j \in hits : i <= j])

Channel_user(c, nickname) ==
    LET pos == Position(c.users, nickname, 1) IN
    IF pos = 0 THEN None ELSE Some(c.users[pos])

Channel_add_user(c, user) == [c EXCEPT !.users = Append(@, user)]

RemoveAt(seq, pos) == SubSeq(seq, 1, pos - 1) \o SubSeq(seq, pos + 1, Len(seq))

\* Returns the channel afterwards and the Option<ChannelUser> result.
Channel_remove_user(c, nickname) ==
    LET pos == Position(c.users, nickname, 1) IN
    IF pos # 0
    THEN [channel |-> [c EXCEPT !.users = RemoveAt(@, pos)],
          ret |-> Some(c.users[pos])]
    ELSE [channel |-> c, ret |-> None]

\* A set_topic that stores whatever text it is given.
Channel_set_topic_KeepsEmpty(c, text) == [c EXCEPT !.topic = Some(text)]

Channel_set_topic(c, text) ==
    [c EXCEPT !.topic = IF is_empty(text) THEN None ELSE Some(text)]

----------------------------------------------------------------------------
(* Irc: the store *)

\* Irc::new
Irc_new == [channels |-> <<>>, status |-> <<"Connected">>]

Irc_get_channel_by_id(chs, id) ==
    IF id \in DOMAIN chs THEN Some(chs[id]) ELSE None

\* Irc::channel
Irc_channel(chs, name) == Irc_get_channel_by_id(chs, to_lowercase(name))

\* The orders in which the HashMap may iterate over its entries: the order
\* is unspecified, so every enumeration of the keys is one.
IterationOrders(chs) ==
    {o \in [1..Cardinality(DOMAIN chs) -> DOMAIN chs] :
        \A i, j \in DOMAIN o : i # j => o[i] # o[j]}

\* Irc::channels: values().collect(), a Vec with one element per entry of
\* the map, in the order the map iterates in.
Irc_channels(chs, order) == [i \in 1..Len(order) |-> chs[order[i]]]

\* An ensure_channel_exists that inserts without looking: insert(id, ..)
\* in place of entry(id).or_insert(..).
Irc_ensure_channel_exists_Insert(chs, name, id) ==
    [k \in DOMAIN chs \cup {id} |->
        IF k = id THEN Channel_new(name) ELSE chs[k]]

\* entry(id).or_insert(Channel::new(name))
Irc_ensure_channel_exists(chs, name, id) ==
    IF id \in DOMAIN chs THEN chs
    ELSE [k \in DOMAIN chs \cup {id} |->
            IF k = id THEN Channel_new(name) ELSE chs[k]]

Irc_channel_set_topic(chs, channel_id, text) ==
    IF channel_id \notin DOMAIN chs THEN chs
    ELSE [chs EXCEPT ![channel_id] = Channel_set_topic(@, text)]

Irc_channel_add_user(chs, channel_id, raw) ==
    IF channel_id \notin DOMAIN chs THEN chs
    ELSE [chs EXCEPT ![channel_id] =
            Channel_add_user(@, ChannelUser_from_raw(raw))]

\* The result of Channel::remove_user is dropped; the function ends in None.
Irc_channel_del_user(chs, channel_id, nickname) ==
    IF channel_id \in DOMAIN chs
    THEN [channels |-> [chs EXCEPT ![channel_id] =
                          Channel_remove_user(@, nickname).channel],
          ret |-> None]
    ELSE [channels |-> chs, ret |-> None]

\* A translation that matches the token by its first two characters, so
\* that "+ov" counts as "+o".
ModeTranslate_ByPrefix(old, m) ==
    LET p == IF Len(m) >= 2 THEN SubSeq(m, 1, 2) ELSE m IN
    CASE old = "Normal" ->
            (CASE p = <<"+", "v">> -> "Voice"
               [] p = <<"+", "h">> -> "HalfOperator"
               [] p = <<"+", "o">> -> "Operator"
               [] OTHER -> old)
      [] old = "HalfOperator" ->
            (CASE p = <<"-", "h">> -> "Normal"
               [] OTHER -> old)
      [] old = "Voice" ->
            (CASE p = <<"-", "v">> -> "Normal"
               [] OTHER -> old)
      [] old \in {"Operator", "Owner"} ->
            (CASE p = <<"-", "o">> -> "Normal"
               [] OTHER -> old)

\* A translation with an arm of its own for Owner, without transitions.
ModeTranslate_OwnerKept(old, m) ==
    CASE old = "Normal" ->
            (CASE m = <<"+", "v">> -> "Voice"
               [] m = <<"+", "h">> -> "HalfOperator"
               [] m = <<"+", "o">> -> "Operator"
               [] OTHER -> old)
      [] old = "HalfOperator" ->
            (CASE m = <<"-", "h">> -> "Normal"
               [] OTHER -> old)
      [] old = "Voice" ->
            (CASE m = <<"-", "v">> -> "Normal"
               [] OTHER -> old)
      [] old = "Operator" ->
            (CASE m = <<"-", "o">> -> "Normal"
               [] OTHER -> old)
      [] old = "Owner" -> old

\* The nested match of channel_update_user_mode: the status set for a
\* member whose status is old when the mode text is m.
ModeTranslate(old, m) ==
    CASE old = "Normal" ->
            (CASE m = <<"+", "v">> -> "Voice"
               [] m = <<"+", "h">> -> "HalfOperator"
               [] m = <<"+", "o">> -> "Operator"
               [] OTHER -> old)
      [] old = "HalfOperator" ->
            (CASE m = <<"-", "h">> -> "Normal"
               [] OTHER -> old)
      [] old = "Voice" ->
            (CASE m = <<"-", "v">> -> "Normal"
               [] OTHER -> old)
      [] old \in {"Operator", "Owner"} ->
            (CASE m = <<"-", "o">> -> "Normal"
               [] OTHER -> old)

\* Returns the map afterwards and Option<(old_status, new_status)>.
Irc_channel_update_user_mode(chs, channel_id, nickname, m) ==
    IF channel_id \in DOMAIN chs
       /\ Position(chs[channel_id].users, nickname, 1) # 0
    THEN LET pos == Position(chs[channel_id].users, nickname, 1)
             old_status == chs[channel_id].users[pos].status
             after == [chs EXCEPT ![channel_id].users[pos].status =
                         ModeTranslate(old_status, m)]
         IN  [channels |-> after,
              ret |-> Some(<<old_status,
                             after[channel_id].users[pos].status>>)]
    ELSE [channels |-> chs, ret |-> None]

\* A clear_channels that leaves the map as it is.
Irc_clear_channels_Keep(chs) == chs

\* A clear_channels that empties every channel object and leaves it in
\* the map.
Irc_clear_channels_EmptiesInPlace(chs) ==
    [id \in DOMAIN chs |-> [chs[id] EXCEPT !.users = <<>>, !.topic = None]]

Irc_clear_channels(chs) == <<>>

\* A set_status that loses the new value.
Irc_set_status_Dropped(s, st) == s

\* Irc::set_status, on the record the routines work on.
Irc_set_status(s, st) == [s EXCEPT !.status = st]

\* A raw that hands over whatever it is given.
Irc_raw_Unchecked(out, raw, wok) ==
    IF ~wok
    THEN [sent |-> Append(out, <<raw \o <<"\n">>, FALSE>>),
          ret |-> "WriterError"]
    ELSE [sent |-> Append(out, <<raw \o <<"\n">>, TRUE>>), ret |-> "Ok"]

\* IrcWrite::raw on Irc: the lines handed to the Writer and the result.
\* wok tells whether the Writer accepts the line; a line is logged as
\* <<line, wok>> whether or not the Writer accepts it.
Irc_raw(out, raw, wok) ==
    IF contains_linebreak(raw) THEN [sent |-> out, ret |-> "Multiline"]
    ELSE IF ~wok
    THEN [sent |-> Append(out, <<raw \o <<"\n">>, FALSE>>),
          ret |-> "WriterError"]
    ELSE [sent |-> Append(out, <<raw \o <<"\n">>, TRUE>>), ret |-> "Ok"]

----------------------------------------------------------------------------
(* Events (loirc::Event, loirc::Message, loirc::Prefix) *)

NoPrefix == [nickname |-> <<>>, kind |-> "None"]
ServerPrefix == [nickname |-> <<>>, kind |-> "Server"]
UserPrefix(n) == [nickname |-> n, kind |-> "User"]

Message(code, prefix, args) ==
    [args |-> args, code |-> code, prefix |-> prefix, reason |-> <<>>,
     type |-> "Message"]

Lifecycle(type, reason) ==
    [args |-> <<>>, code |-> "", prefix |-> NoPrefix, reason |-> reason,
     type |-> type]

\* A user_or_return! that lets every prefix through.
user_or_return_AnyPrefix(prefix) == Some(prefix)

\* user_or_return!: the user of a User prefix, None for any other prefix.
user_or_return(prefix) ==
    IF prefix.kind = "User" THEN Some(prefix) ELSE None

\* Code::is_error: the error replies among the codes of the model.
ErrorCodes == {"ErrNosuchnick"}
is_error(code) == code \in ErrorCodes

----------------------------------------------------------------------------
(* Dispatch: s is the state a routine works on,                            *)
(* [channels, status, calls, sent]; every routine returns the state after. *)

\* self.listener.<cb>(self.irc.clone(), ...): the callback sees the store
\* and the status as they are at the time of the call; nsent is the number
\* of lines the feed has handed to the Writer by then.  any is handed the
\* event itself.
Invoke(s, cb, channel, user, args) ==
    [s EXCEPT !.calls = Append(@, [status |-> s.status, args |-> args,
                                   user |-> user, channel |-> channel,
                                   cb |-> cb, store |-> s.channels,
                                   nsent |-> Len(s.sent)])]

\* for raw in user_list.split(" ") { channel_add_user(&channel_id, raw) }
RECURSIVE AddUsers(_, _, _, _)
AddUsers(chs, channel_id, raws, i) ==
    IF i > Len(raws) THEN chs
    ELSE AddUsers(Irc_channel_add_user(chs, channel_id, raws[i]),
                  channel_id, raws, i + 1)

\* A name_reply that reports the channel as joined with each reply.
name_reply_Notifies(s, msg) ==
    IF IsNone(ArgGet(msg.args, 2)) THEN s
    ELSE
    LET channel_name == Unwrap(ArgGet(msg.args, 2))
        channel_id == to_lowercase(channel_name)
        user_list == Unwrap(ArgLast(msg.args))
        chs1 == Irc_ensure_channel_exists(s.channels, channel_name, channel_id)
        s2 == [s EXCEPT !.channels =
                 AddUsers(chs1, channel_id, split(user_list), 1)]
    IN  Invoke(s2, "channel_join",
               Irc_get_channel_by_id(s2.channels, channel_id), None, <<>>)

\* The writes of name_reply, each a critical section of its own: the map
\* after ensure_channel_exists, then after each channel_add_user of the
\* loop.  Empty when the routine returns before it writes.
name_reply_writes(chs, msg) ==
    IF IsNone(ArgGet(msg.args, 2)) THEN <<>>
    ELSE
    LET channel_name == Unwrap(ArgGet(msg.args, 2))
        channel_id == to_lowercase(channel_name)
        user_list == Unwrap(ArgLast(msg.args))
        raws == split(user_list)
        chs1 == Irc_ensure_channel_exists(chs, channel_name, channel_id)
    IN  [k \in 1..(Len(raws) + 1) |->
            AddUsers(chs1, channel_id, SubSeq(raws, 1, k - 1), 1)]

name_reply(s, msg) ==
    LET w == name_reply_writes(s.channels, msg) IN
    IF w = <<>> THEN s ELSE [s EXCEPT !.channels = w[Len(w)]]

end_name_reply(s, msg) ==
    IF IsNone(ArgGet(msg.args, 1)) THEN s
    ELSE
    LET channel_name == Unwrap(ArgGet(msg.args, 1))
        channel == Irc_channel(s.channels, channel_name)
    IN  IF IsNone(channel) THEN s
        ELSE Invoke(s, "channel_join", channel, None, <<>>)

\* Dispatch::topic (cb = "topic_change", channel name at index 0) and
\* Dispatch::rpl_topic (cb = "topic", channel name at index 1): the two
\* bodies differ in nothing else.
\* The writes of topic and rpl_topic: the map after ensure_channel_exists,
\* then after channel_set_topic.
topic_at_writes(chs, msg, idx) ==
    IF IsNone(ArgLast(msg.args)) \/ IsNone(ArgGet(msg.args, idx)) THEN <<>>
    ELSE
    LET text == Unwrap(ArgLast(msg.args))
        channel_name == Unwrap(ArgGet(msg.args, idx))
        channel_id == to_lowercase(channel_name)
        \* ensure_channel_exists(&channel_id, channel_name):
        \* the parameters are (name, id)
        chs1 == Irc_ensure_channel_exists(chs, channel_id, channel_name)
        chs2 == Irc_channel_set_topic(chs1, channel_id, text)
    IN  <<chs1, chs2>>

topic_at(s, msg, idx, cb) ==
    LET w == topic_at_writes(s.channels, msg, idx) IN
    IF w = <<>> THEN s
    ELSE
    LET channel_id == to_lowercase(Unwrap(ArgGet(msg.args, idx)))
        s2 == [s EXCEPT !.channels = w[Len(w)]]
        channel == Irc_get_channel_by_id(s2.channels, channel_id)
    IN  IF IsNone(channel) THEN s2
        ELSE Invoke(s2, cb, channel, None, <<Unwrap(channel).topic>>)

topic(s, msg) == topic_at(s, msg, 0, "topic_change")

rpl_topic(s, msg) == topic_at(s, msg, 1, "topic")

\* The writes of rpl_no_topic: ensure_channel_exists, channel_set_topic.
rpl_no_topic_writes(chs, msg) ==
    IF IsNone(ArgGet(msg.args, 0)) THEN <<>>
    ELSE
    LET channel_name == Unwrap(ArgGet(msg.args, 0))
        channel_id == to_lowercase(channel_name)
        chs1 == Irc_ensure_channel_exists(chs, channel_name, channel_id)
        chs2 == Irc_channel_set_topic(chs1, channel_id, <<>>)
    IN  <<chs1, chs2>>

rpl_no_topic(s, msg) ==
    LET w == rpl_no_topic_writes(s.channels, msg) IN
    IF w = <<>> THEN s
    ELSE
    LET channel_id == to_lowercase(Unwrap(ArgGet(msg.args, 0)))
        s2 == [s EXCEPT !.channels = w[Len(w)]]
        channel == Irc_get_channel_by_id(s2.channels, channel_id)
    IN  IF IsNone(channel) THEN s2
        ELSE Invoke(s2, "topic", channel, None, <<None>>)

join(s, msg) ==
    IF IsNone(user_or_return(msg.prefix)) \/ IsNone(ArgGet(msg.args, 0)) THEN s
    ELSE
    LET prefix == Unwrap(user_or_return(msg.prefix))
        channel_id == to_lowercase(Unwrap(ArgGet(msg.args, 0)))
        s2 == [s EXCEPT !.channels =
                 Irc_channel_add_user(@, channel_id, prefix.nickname)]
        channel == Irc_get_channel_by_id(s2.channels, channel_id)
    IN  IF IsNone(channel) THEN s2
        ELSE LET user == Channel_user(Unwrap(channel), prefix.nickname) IN
             IF IsNone(user) THEN s2
             ELSE Invoke(s2, "user_join", channel, user, <<>>)

part(s, msg) ==
    IF IsNone(user_or_return(msg.prefix)) \/ IsNone(ArgGet(msg.args, 0)) THEN s
    ELSE
    LET prefix == Unwrap(user_or_return(msg.prefix))
        channel_id == to_lowercase(Unwrap(ArgGet(msg.args, 0)))
        s2 == [s EXCEPT !.channels =
                 Irc_channel_del_user(@, channel_id, prefix.nickname).channels]
        channel == Irc_get_channel_by_id(s2.channels, channel_id)
    IN  IF IsNone(channel) THEN s2
        ELSE LET user == Channel_user(Unwrap(channel), prefix.nickname) IN
             IF IsNone(user) THEN s2
             ELSE Invoke(s2, "user_part", channel, user, <<>>)

\* A message routine that does not ask whether the sender is a member.
message_AnySender(s, msg, notice) ==
    IF \/ IsNone(user_or_return(msg.prefix))
       \/ IsNone(ArgLast(msg.args))
       \/ IsNone(ArgGet(msg.args, 0)) THEN s
    ELSE
    LET prefix == Unwrap(user_or_return(msg.prefix))
        text == Unwrap(ArgLast(msg.args))
        source == Unwrap(ArgGet(msg.args, 0))
    IN  IF starts_with_hash(source)
        THEN LET channel == Irc_channel(s.channels, source) IN
             IF IsNone(channel) THEN s
             ELSE LET user == Channel_user(Unwrap(channel), prefix.nickname) IN
                  IF ~notice
                  THEN Invoke(s, "channel_msg", channel, user, <<text>>)
                  ELSE Invoke(s, "channel_notice", channel, user, <<text>>)
        ELSE IF ~notice
             THEN Invoke(s, "private_msg", None, None,
                         <<prefix.nickname, text>>)
             ELSE Invoke(s, "private_notice", None, None,
                         <<prefix.nickname, text>>)

message(s, msg, notice) ==
    IF \/ IsNone(user_or_return(msg.prefix))
       \/ IsNone(ArgLast(msg.args))
       \/ IsNone(ArgGet(msg.args, 0)) THEN s
    ELSE
    LET prefix == Unwrap(user_or_return(msg.prefix))
        text == Unwrap(ArgLast(msg.args))
        source == Unwrap(ArgGet(msg.args, 0))
    IN  IF starts_with_hash(source)
        THEN LET channel == Irc_channel(s.channels, source) IN
             IF IsNone(channel) THEN s
             ELSE LET user == Channel_user(Unwrap(channel), prefix.nickname) IN
                  IF IsNone(user) THEN s
                  ELSE IF ~notice
                  THEN Invoke(s, "channel_msg", channel, user, <<text>>)
                  ELSE Invoke(s, "channel_notice", channel, user, <<text>>)
        ELSE IF ~notice
             THEN Invoke(s, "private_msg", None, None,
                         <<prefix.nickname, text>>)
             ELSE Invoke(s, "private_notice", None, None,
                         <<prefix.nickname, text>>)

\* channel.remove_user(nickname) on the channels kept under the keys ids.
RemoveIn(chs, ids, nickname) ==
    [id \in DOMAIN chs |->
        IF id \in ids THEN Channel_remove_user(chs[id], nickname).channel
        ELSE chs[id]]

\* The writes of quit: `for channel in self.irc.channels()` takes the
\* channels in the order Irc::channels lists them and removes the member
\* from one after the other, each under that channel's own lock.
quit_writes(chs, msg, order) ==
    IF IsNone(user_or_return(msg.prefix)) THEN <<>>
    ELSE
    LET user == Unwrap(user_or_return(msg.prefix))
    IN  [k \in 1..Len(order) |->
            RemoveIn(chs, {order[i] : i \in 1..k}, user.nickname)]

quit(s, msg) ==
    IF IsNone(user_or_return(msg.prefix)) THEN s
    ELSE
    LET user == Unwrap(user_or_return(msg.prefix))
        \* for channel in self.irc.channels() { channel.remove_user(..) }
        s2 == [s EXCEPT !.channels = RemoveIn(@, DOMAIN @, user.nickname)]
    IN  Invoke(s2, "user_quit", None, None, <<user.nickname>>)

\* A rename that puts a new member in the place of the old one.
RenameIn_Recreates(c, old, newname) ==
    LET pos == Position(c.users, old, 1) IN
    IF pos = 0 THEN c
    ELSE [c EXCEPT !.users[pos] = ChannelUser_new(newname, @.status)]

\* if let Some(user) = channel.user(old) { user.set_nickname(newname) }
RenameIn(c, old, newname) ==
    LET pos == Position(c.users, old, 1) IN
    IF pos = 0 THEN c
    ELSE [c EXCEPT !.users[pos].nickname = newname]

\* The rename applied to the channels kept under the keys ids.
RenameAmong(chs, ids, old, newname) ==
    [id \in DOMAIN chs |->
        IF id \in ids THEN RenameIn(chs[id], old, newname) ELSE chs[id]]

\* The writes of nick: the channels are taken in the order Irc::channels
\* lists them, and the member is renamed in one after the other.
nick_writes(chs, msg, order) ==
    IF IsNone(user_or_return(msg.prefix)) \/ IsNone(ArgLast(msg.args))
    THEN <<>>
    ELSE
    LET prefix == Unwrap(user_or_return(msg.prefix))
        newname == Unwrap(ArgLast(msg.args))
    IN  [k \in 1..Len(order) |->
            RenameAmong(chs, {order[i] : i \in 1..k},
                        prefix.nickname, newname)]

nick(s, msg) ==
    IF IsNone(user_or_return(msg.prefix)) \/ IsNone(ArgLast(msg.args)) THEN s
    ELSE
    LET prefix == Unwrap(user_or_return(msg.prefix))
        newname == Unwrap(ArgLast(msg.args))
        s2 == [s EXCEPT !.channels =
                 RenameAmong(@, DOMAIN @, prefix.nickname, newname)]
    IN  Invoke(s2, "nick_change", None, None, <<prefix.nickname, newname>>)

kick(s, msg) ==
    IF IsNone(ArgLast(msg.args)) \/ IsNone(ArgGet(msg.args, 0)) THEN s
    ELSE
    LET kicked_user == Unwrap(ArgLast(msg.args))
        channel_id == to_lowercase(Unwrap(ArgGet(msg.args, 0)))
        del == Irc_channel_del_user(s.channels, channel_id, kicked_user)
        s2 == [s EXCEPT !.channels = del.channels]
    IN  IF IsNone(del.ret) THEN s2
        ELSE LET channel == Irc_get_channel_by_id(s2.channels, channel_id) IN
             IF IsNone(channel) THEN s2
             ELSE Invoke(s2, "kick", channel, del.ret, <<>>)

\* IrcWrite::pong / nick / user: format!, then raw.
PongLine(server) == <<"P", "O", "N", "G", " ">> \o server
NickLine(nickname) == <<"N", "I", "C", "K", " ">> \o nickname
UserLine(username, realname) ==
    <<"U", "S", "E", "R", " ">> \o username
        \o <<" ", "8", " ", "*", " ", ":">> \o realname

\* The other builders of IrcWrite: format!, then raw.  An Option argument
\* is None or Some(text).
PingLine(server) == <<"P", "I", "N", "G", " ">> \o server
PassLine(password) == <<"P", "A", "S", "S", " ">> \o password
PrivmsgLine(target, text) ==
    <<"P", "R", "I", "V", "M", "S", "G", " ">> \o target \o <<" ", ":">>
        \o text
NoticeLine(target, text) ==
    <<"N", "O", "T", "I", "C", "E", " ">> \o target \o <<" ", ":">> \o text
JoinLine(channel, password) ==
    IF IsNone(password) THEN <<"J", "O", "I", "N", " ">> \o channel
    ELSE <<"J", "O", "I", "N", " ">> \o channel \o <<" ">>
             \o Unwrap(password)
PartLine(channel, reason) ==
    IF IsNone(reason) THEN <<"P", "A", "R", "T", " ">> \o channel
    ELSE <<"P", "A", "R", "T", " ">> \o channel \o <<" ", ":">>
             \o Unwrap(reason)
QuitLine(reason) ==
    IF IsNone(reason)
    THEN <<"Q", "U", "I", "T", " ", ":", "N", "o", " ",
           "m", "e", "s", "s", "a", "g", "e">>
    ELSE <<"Q", "U", "I", "T", " ", ":">> \o Unwrap(reason)
GetTopicLine(channel) == <<"T", "O", "P", "I", "C", " ">> \o channel
SetTopicLine(channel, topic_text) ==
    <<"T", "O", "P", "I", "C", " ">> \o channel \o <<" ", ":">> \o topic_text
KickLine(channel, nickname) ==
    <<"K", "I", "C", "K", " ">> \o channel \o <<" ">> \o nickname

\* What a call of IrcWrite passes to raw.  a holds the call's arguments;
\* an Option argument, always the last, is there or not.
IrcWrite_payload(op, a) ==
    CASE op = "raw" -> a[1]
      [] op = "nick" -> NickLine(a[1])
      [] op = "user" -> UserLine(a[1], a[2])
      [] op = "ping" -> PingLine(a[1])
      [] op = "pong" -> PongLine(a[1])
      [] op = "pass" -> PassLine(a[1])
      [] op = "privmsg" -> PrivmsgLine(a[1], a[2])
      [] op = "notice" -> NoticeLine(a[1], a[2])
      [] op = "join" -> JoinLine(a[1], ArgGet(a, 1))
      [] op = "part" -> PartLine(a[1], ArgGet(a, 1))
      [] op = "quit" -> QuitLine(ArgGet(a, 0))
      [] op = "get_topic" -> GetTopicLine(a[1])
      [] op = "set_topic" -> SetTopicLine(a[1], a[2])
      [] op = "kick" -> KickLine(a[1], a[2])

\* A ping routine that gives up when the answer cannot be written.
ping_GivesUpOnError(s, msg, cfg, wok) ==
    IF IsNone(ArgLast(msg.args)) THEN s
    ELSE
    LET server == Unwrap(ArgLast(msg.args))
        s2 == IF cfg.auto_ping
              THEN [s EXCEPT !.sent = Irc_raw(@, PongLine(server), wok).sent]
              ELSE s
    IN  IF cfg.auto_ping /\ ~wok THEN s2
        ELSE Invoke(s2, "ping", None, None, <<server>>)

ping(s, msg, cfg, wok) ==
    IF IsNone(ArgLast(msg.args)) THEN s
    ELSE
    LET server == Unwrap(ArgLast(msg.args))
        s2 == IF cfg.auto_ping
              THEN [s EXCEPT !.sent = Irc_raw(@, PongLine(server), wok).sent]
              ELSE s
    IN  Invoke(s2, "ping", None, None, <<server>>)

\* A pong routine that takes the reply as proof of a live connection.
pong_MarksConnected(s, msg) ==
    IF IsNone(ArgLast(msg.args)) THEN s
    ELSE Invoke(Irc_set_status(s, <<"Connected">>), "pong", None, None,
                <<Unwrap(ArgLast(msg.args))>>)

pong(s, msg) ==
    IF IsNone(ArgLast(msg.args)) THEN s
    ELSE Invoke(s, "pong", None, None, <<Unwrap(ArgLast(msg.args))>>)

\* A mode routine without the test old_status != new_status.
mode_AlwaysNotifies(s, msg) ==
    IF \/ IsNone(ArgGet(msg.args, 1))
       \/ IsNone(ArgGet(msg.args, 2))
       \/ IsNone(ArgGet(msg.args, 0)) THEN s
    ELSE
    LET m == Unwrap(ArgGet(msg.args, 1))
        nickname == Unwrap(ArgGet(msg.args, 2))
        channel_id == to_lowercase(Unwrap(ArgGet(msg.args, 0)))
        upd == Irc_channel_update_user_mode(s.channels, channel_id, nickname, m)
        s2 == [s EXCEPT !.channels = upd.channels]
    IN  IF IsNone(upd.ret) THEN s2
        ELSE LET channel == Irc_get_channel_by_id(s2.channels, channel_id) IN
             IF IsNone(channel) THEN s2
             ELSE LET user == Channel_user(Unwrap(channel), nickname) IN
                  IF IsNone(user) THEN s2
                  ELSE Invoke(s2, "user_mode_change", channel, user,
                              <<Unwrap(upd.ret)[1], Unwrap(user).status>>)

mode(s, msg) ==
    IF \/ IsNone(ArgGet(msg.args, 1))
       \/ IsNone(ArgGet(msg.args, 2))
       \/ IsNone(ArgGet(msg.args, 0)) THEN s
    ELSE
    LET m == Unwrap(ArgGet(msg.args, 1))
        nickname == Unwrap(ArgGet(msg.args, 2))
        channel_id == to_lowercase(Unwrap(ArgGet(msg.args, 0)))
        upd == Irc_channel_update_user_mode(s.channels, channel_id, nickname, m)
        s2 == [s EXCEPT !.channels = upd.channels]
    IN  IF IsNone(upd.ret) THEN s2
        ELSE IF Unwrap(upd.ret)[1] = Unwrap(upd.ret)[2] THEN s2
        ELSE LET channel == Irc_get_channel_by_id(s2.channels, channel_id) IN
             IF IsNone(channel) THEN s2
             ELSE LET user == Channel_user(Unwrap(channel), nickname) IN
                  IF IsNone(user) THEN s2
                  ELSE Invoke(s2, "user_mode_change", channel, user,
                              <<Unwrap(upd.ret)[1], Unwrap(user).status>>)

\* Settings::new, with the two flags as given.
Settings_new(auto_ident, auto_ping) ==
    [nickname |-> <<"m">>, username |-> <<"h">>, realname |-> <<"h">>,
     password |-> <<>>, auto_ping |-> auto_ping,
     auto_ident |-> auto_ident]

\* Settings::password
Settings_password(cfg, password) == [cfg EXCEPT !.password = password]

\* A feed that reports the event to any after handling it.
feed_AnyAfterwards(s0, e, cfg, wok) ==
    LET s1 == [s0 EXCEPT !.calls = <<>>, !.sent = <<>>]
        handled ==
        CASE e.type = "Closed" ->
                Invoke(Irc_set_status(s1, <<"Closed", e.reason>>),
                       "close", None, None, <<e.reason>>)
          [] e.type = "Disconnected" ->
                Invoke([Irc_set_status(s1, <<"Disconnected">>)
                           EXCEPT !.channels = Irc_clear_channels(@)],
                       "disconnect", None, None, <<>>)
          [] e.type = "Reconnecting" ->
                Invoke(Irc_set_status(s1, <<"Reconnecting">>),
                       "reconnecting", None, None, <<>>)
          [] e.type = "Reconnected" ->
                LET s2 == Irc_set_status(s1, <<"Connected">>)
                    o1 == Irc_raw(s2.sent, UserLine(cfg.username, cfg.realname),
                                  wok[1]).sent
                    o2 == Irc_raw(o1, NickLine(cfg.nickname), wok[2]).sent
                    s3 == IF cfg.auto_ident THEN [s2 EXCEPT !.sent = o2] ELSE s2
                IN  Invoke(s3, "reconnect", None, None, <<>>)
          [] e.type = "Message" ->
                LET s2 == Invoke(s1, "msg", None, None, <<>>)
                    s3 == IF is_error(e.code)
                          THEN Invoke(s2, "error_msg", None, None, <<e.code>>)
                          ELSE s2
                IN  CASE e.code = "RplWelcome" ->
                            Invoke(s3, "welcome", None, None, <<>>)
                      [] e.code = "RplNamreply" -> name_reply(s3, e)
                      [] e.code = "RplEndofnames" -> end_name_reply(s3, e)
                      [] e.code = "Topic" -> topic(s3, e)
                      [] e.code = "RplTopic" -> rpl_topic(s3, e)
                      [] e.code = "RplNotopic" -> rpl_no_topic(s3, e)
                      [] e.code = "Join" -> join(s3, e)
                      [] e.code = "Part" -> part(s3, e)
                      [] e.code = "Privmsg" -> message(s3, e, FALSE)
                      [] e.code = "Notice" -> message(s3, e, TRUE)
                      [] e.code = "Quit" -> quit(s3, e)
                      [] e.code = "Nick" -> nick(s3, e)
                      [] e.code = "Kick" -> kick(s3, e)
                      [] e.code = "Ping" -> ping(s3, e, cfg, wok[1])
                      [] e.code = "Pong" -> pong(s3, e)
                      [] e.code = "Mode" -> mode(s3, e)
                      [] OTHER -> s3
    IN  Invoke(handled, "any", None, None, <<e>>)

\* A feed that tells the handler of the reconnection before it identifies.
feed_ReconnectNotifiesFirst(s0, e, cfg, wok) ==
    LET s1 == Invoke([s0 EXCEPT !.calls = <<>>, !.sent = <<>>],
                     "any", None, None, <<e>>)
    IN
    CASE e.type = "Closed" ->
            Invoke(Irc_set_status(s1, <<"Closed", e.reason>>),
                   "close", None, None, <<e.reason>>)
      [] e.type = "Disconnected" ->
            Invoke([Irc_set_status(s1, <<"Disconnected">>)
                       EXCEPT !.channels = Irc_clear_channels(@)],
                   "disconnect", None, None, <<>>)
      [] e.type = "Reconnecting" ->
            Invoke(Irc_set_status(s1, <<"Reconnecting">>),
                   "reconnecting", None, None, <<>>)
      [] e.type = "Reconnected" ->
            LET s2 == Irc_set_status(s1, <<"Connected">>)
                o1 == Irc_raw(s2.sent, UserLine(cfg.username, cfg.realname),
                              wok[1]).sent
                o2 == Irc_raw(o1, NickLine(cfg.nickname), wok[2]).sent
                s3 == Invoke(s2, "reconnect", None, None, <<>>)
            IN  IF cfg.auto_ident THEN [s3 EXCEPT !.sent = o2] ELSE s3
      [] e.type = "Message" ->
            LET s2 == Invoke(s1, "msg", None, None, <<>>)
                s3 == IF is_error(e.code)
                      THEN Invoke(s2, "error_msg", None, None, <<e.code>>)
                      ELSE s2
            IN  CASE e.code = "RplWelcome" ->
                        Invoke(s3, "welcome", None, None, <<>>)
                  [] e.code = "RplNamreply" -> name_reply(s3, e)
                  [] e.code = "RplEndofnames" -> end_name_reply(s3, e)
                  [] e.code = "Topic" -> topic(s3, e)
                  [] e.code = "RplTopic" -> rpl_topic(s3, e)
                  [] e.code = "RplNotopic" -> rpl_no_topic(s3, e)
                  [] e.code = "Join" -> join(s3, e)
                  [] e.code = "Part" -> part(s3, e)
                  [] e.code = "Privmsg" -> message(s3, e, FALSE)
                  [] e.code = "Notice" -> message(s3, e, TRUE)
                  [] e.code = "Quit" -> quit(s3, e)
                  [] e.code = "Nick" -> nick(s3, e)
                  [] e.code = "Kick" -> kick(s3, e)
                  [] e.code = "Ping" -> ping(s3, e, cfg, wok[1])
                  [] e.code = "Pong" -> pong(s3, e)
                  [] e.code = "Mode" -> mode(s3, e)
                  [] OTHER -> s3

\* Dispatch::feed.  wok[i] tells whether the Writer accepts the i-th line
\* this feed tries to send.
feed(s0, e, cfg, wok) ==
    LET s1 == Invoke([s0 EXCEPT !.calls = <<>>, !.sent = <<>>],
                     "any", None, None, <<e>>)
    IN
    CASE e.type = "Closed" ->
            Invoke(Irc_set_status(s1, <<"Closed", e.reason>>),
                   "close", None, None, <<e.reason>>)
      [] e.type = "Disconnected" ->
            Invoke([Irc_set_status(s1, <<"Disconnected">>)
                       EXCEPT !.channels = Irc_clear_channels(@)],
                   "disconnect", None, None, <<>>)
      [] e.type = "Reconnecting" ->
            Invoke(Irc_set_status(s1, <<"Reconnecting">>),
                   "reconnecting", None, None, <<>>)
      [] e.type = "Reconnected" ->
            LET s2 == Irc_set_status(s1, <<"Connected">>)
                o1 == Irc_raw(s2.sent, UserLine(cfg.username, cfg.realname),
                              wok[1]).sent
                o2 == Irc_raw(o1, NickLine(cfg.nickname), wok[2]).sent
                s3 == IF cfg.auto_ident THEN [s2 EXCEPT !.sent = o2] ELSE s2
            IN  Invoke(s3, "reconnect", None, None, <<>>)
      [] e.type = "Message" ->
            LET s2 == Invoke(s1, "msg", None, None, <<>>)
                s3 == IF is_error(e.code)
                      THEN Invoke(s2, "error_msg", None, None, <<e.code>>)
                      ELSE s2
            IN  CASE e.code = "RplWelcome" ->
                        Invoke(s3, "welcome", None, None, <<>>)
                  [] e.code = "RplNamreply" -> name_reply(s3, e)
                  [] e.code = "RplEndofnames" -> end_name_reply(s3, e)
                  [] e.code = "Topic" -> topic(s3, e)
                  [] e.code = "RplTopic" -> rpl_topic(s3, e)
                  [] e.code = "RplNotopic" -> rpl_no_topic(s3, e)
                  [] e.code = "Join" -> join(s3, e)
                  [] e.code = "Part" -> part(s3, e)
                  [] e.code = "Privmsg" -> message(s3, e, FALSE)
                  [] e.code = "Notice" -> message(s3, e, TRUE)
                  [] e.code = "Quit" -> quit(s3, e)
                  [] e.code = "Nick" -> nick(s3, e)
                  [] e.code = "Kick" -> kick(s3, e)
                  [] e.code = "Ping" -> ping(s3, e, cfg, wok[1])
                  [] e.code = "Pong" -> pong(s3, e)
                  [] e.code = "Mode" -> mode(s3, e)
                  [] OTHER -> s3

\* The writes of a feed, in program order, for the events whose handling
\* writes the store or the status more than once: i is the store and the
\* status, [channels, status], before the feed; the result lists what they
\* are after each write.  Every write is a critical section of its own
\* (the lock is taken and released inside set_status, clear_channels,
\* ensure_channel_exists, channel_add_user, channel_set_topic,
\* remove_user, set_nickname), so that another thread can see the store
\* between any two of them.  order is the order Irc::channels lists the
\* channels in.  Empty for the events handled with one write or none.
feed_writes(i, e, order) ==
    LET Stores(w) == [k \in 1..Len(w) |-> [i EXCEPT !.channels = w[k]]]
    IN
    CASE e.type = "Disconnected" ->
            LET i1 == Irc_set_status(i, <<"Disconnected">>)
            IN  << i1, [i1 EXCEPT !.channels = Irc_clear_channels(@)] >>
      [] e.type = "Message" /\ e.code = "RplNamreply" ->
            Stores(name_reply_writes(i.channels, e))
      [] e.type = "Message" /\ e.code = "Topic" ->
            Stores(topic_at_writes(i.channels, e, 0))
      [] e.type = "Message" /\ e.code = "RplTopic" ->
            Stores(topic_at_writes(i.channels, e, 1))
      [] e.type = "Message" /\ e.code = "RplNotopic" ->
            Stores(rpl_no_topic_writes(i.channels, e))
      [] e.type = "Message" /\ e.code = "Quit" ->
            Stores(quit_writes(i.channels, e, order))
      [] e.type = "Message" /\ e.code = "Nick" ->
            Stores(nick_writes(i.channels, e, order))
      [] OTHER -> <<>>

\* The callbacks feed invokes before the routine of the event: any, then
\* msg and error_msg for a message.
Heard(e) ==
    IF e.type = "Message" THEN (IF is_error(e.code) THEN 3 ELSE 2) ELSE 1

----------------------------------------------------------------------------
(* Inputs: the events the transport may deliver *)

nA == <<"a">>
nB == <<"b">>
cA == <<"#", "a">>
cAUpper == <<"#", "A">>
cB == <<"#", "b">>
me == <<"m">>
txt == <<"t">>

Nicks == {nA, nB}
ChannelNames == {cA, cAUpper, cB}

\* Trailing arguments of a name reply: "a", "a a", "@a +b", "~a b"
UserLists ==
    { <<"a">>, <<"a", " ", "a">>, <<"@", "a", " ", "+", "b">>,
      <<"~", "a", " ", "b">> }

ModeTokens ==
    { <<"+", "v">>, <<"-", "v">>, <<"+", "h">>, <<"-", "h">>,
      <<"+", "o">>, <<"-", "o">> }

UserPrefixes == {UserPrefix(n) : n \in Nicks}
Prefixes == UserPrefixes \cup {ServerPrefix, NoPrefix}

NameReplyEvents ==
    { Message("RplNamreply", ServerPrefix, <<me, <<"=">>, c, l>>) :
        c \in ChannelNames, l \in UserLists }
    \cup { Message("RplNamreply", ServerPrefix, <<me, <<"=">>>>) }

EndNamesEvents ==
    { Message("RplEndofnames", ServerPrefix, <<me, c, txt>>) :
        c \in ChannelNames }
    \cup { Message("RplEndofnames", ServerPrefix, <<me>>) }

TopicEvents ==
    { Message("Topic", UserPrefix(nA), <<c, t>>) :
        c \in ChannelNames, t \in {txt, <<>>} }
    \cup { Message("Topic", UserPrefix(nA), <<>>) }

RplTopicEvents ==
    { Message("RplTopic", ServerPrefix, <<me, c, t>>) :
        c \in ChannelNames, t \in {txt, <<>>} }
    \cup { Message("RplTopic", ServerPrefix, <<me>>) }

RplNoTopicEvents ==
    { Message("RplNotopic", ServerPrefix, <<c, txt>>) : c \in ChannelNames }
    \cup { Message("RplNotopic", ServerPrefix, <<>>) }

JoinEvents ==
    { Message("Join", p, <<c>>) : p \in UserPrefixes, c \in ChannelNames }
    \cup { Message("Join", p, <<cA>>) : p \in {ServerPrefix, NoPrefix} }
    \cup { Message("Join", UserPrefix(nA), <<>>) }

PartEvents ==
    { Message("Part", p, <<c>>) : p \in UserPrefixes, c \in ChannelNames }
    \cup { Message("Part", p, <<cA>>) : p \in {ServerPrefix, NoPrefix} }
    \cup { Message("Part", UserPrefix(nA), <<>>) }

KickEvents ==
    { Message("Kick", UserPrefix(nA), <<c, n>>) :
        c \in ChannelNames, n \in Nicks }
    \cup { Message("Kick", UserPrefix(nA), <<>>) }

QuitEvents == { Message("Quit", p, <<txt>>) : p \in Prefixes }

NickEvents ==
    { Message("Nick", p, <<n>>) : p \in UserPrefixes, n \in Nicks }
    \cup { Message("Nick", p, <<nB>>) : p \in {ServerPrefix, NoPrefix} }
    \cup { Message("Nick", UserPrefix(nA), <<>>) }

\* Tokens outside the six: "+b", "+ov" and the empty string.
OtherModeTokens == { <<"+", "b">>, <<"+", "o", "v">>, <<>> }

ModeEvents ==
    { Message("Mode", UserPrefix(nA), <<c, m, n>>) :
        c \in ChannelNames, m \in ModeTokens, n \in Nicks }
    \cup { Message("Mode", UserPrefix(nA), <<cA, m, nA>>) :
              m \in OtherModeTokens }
    \cup { Message("Mode", UserPrefix(nA), <<cA, <<"+", "o">>>>) }

PrivmsgEvents ==
    { Message("Privmsg", p, <<t, txt>>) :
        p \in Prefixes, t \in {cA, cAUpper, me} }
    \cup { Message("Privmsg", UserPrefix(nA), <<>>) }

NoticeEvents ==
    { Message("Notice", p, <<t, txt>>) :
        p \in Prefixes, t \in {cA, cAUpper, me} }
    \cup { Message("Notice", UserPrefix(nA), <<>>) }

PingEvents ==
    { Message("Ping", NoPrefix, <<txt>>), Message("Ping", NoPrefix, <<>>) }

PongEvents ==
    { Message("Pong", ServerPrefix, <<txt>>),
      Message("Pong", ServerPrefix, <<>>) }

WelcomeEvents == { Message("RplWelcome", ServerPrefix, <<me, txt>>) }

\* Codes without a routine of their own: an error reply and a plain reply.
OtherEvents ==
    { Message("ErrNosuchnick", ServerPrefix, <<me, nA, txt>>),
      Message("RplYourhost", ServerPrefix, <<me, txt>>) }

----------------------------------------------------------------------------
(* Actions *)

RECURSIVE SumLen(_)
SumLen(S) ==
    IF S = {} THEN 0
    ELSE LET x == CHOOSE y \in S : TRUE IN Len(x[2]) + SumLen(S \ {x})

\* Number of members held by the store.
MemberCount(chs) == SumLen({<<id, chs[id].users>> : id \in DOMAIN chs})

AlwaysOk == [i \in 1..2 |-> TRUE]

\* A sequence of writes without those that change nothing: what is left
\* of w when every element equal to the one before it (prev for the first)
\* is dropped.
RECURSIVE Squeeze(_, _)
Squeeze(prev, w) ==
    IF w = <<>> THEN <<>>
    ELSE IF Head(w) = prev THEN Squeeze(prev, Tail(w))
    ELSE <<Head(w)>> \o Squeeze(Head(w), Tail(w))

\* The states a feed of e goes through, one per write that changes the
\* store or the status, the last of them r, the state the feed ends in: up
\* to its last write the feed has invoked the callbacks that come before
\* the routine and has sent nothing.
FeedPath(e, r, order) ==
    LET i == [channels |-> channels, status |-> status]
        w == Squeeze(i, feed_writes(i, e, order))
    IN  [k \in 1..(Len(w) - 1) |->
            [r EXCEPT !.channels = w[k].channels,
                      !.status = w[k].status,
                      !.calls = SubSeq(@, 1, Heard(e)),
                      !.sent = <<>>]]
        \o <<r>>

\* Arc<Channel>, Arc<ChannelUser>: a reference a handler's thread keeps
\* is <<place, object>>: the object as it is now, and the place the store
\* holds it at, <<key>> for a channel of the map, <<key, index>> for a
\* member of its list, <<>> once the store has dropped the object (the
\* reference alone keeps it, and nothing can change it any more).
Arc(place, object) == <<place, object>>
NoArc == <<>>

\* The handler's thread keeps no reference.
NoKept == <<NoArc, NoArc>>

\* The index Channel::remove_user took out of the list u to give u2.
Removed(u, u2) ==
    CHOOSE p \in 1..Len(u) :
        /\ RemoveAt(u, p) = u2
        /\ \A q \in 1..(p - 1) : RemoveAt(u, q) # u2

\* The reference r after one write of the dispatch thread has taken the
\* store from chs to chs2: Irc::clear_channels drops every channel from the
\* map, Channel::remove_user one member from a list and moves the members
\* behind it one place down, every other write changes an object where it
\* is.
Follow(r, chs, chs2) ==
    IF r = NoArc \/ r[1] = <<>> THEN r
    ELSE IF r[1][1] \notin DOMAIN chs2 THEN Arc(<<>>, r[2])
    ELSE IF Len(r[1]) = 1 THEN Arc(r[1], chs2[r[1][1]])
    ELSE LET u == chs[r[1][1]].users
             u2 == chs2[r[1][1]].users
             gone == IF Len(u2) < Len(u) THEN Removed(u, u2) ELSE 0
             pos == IF gone # 0 /\ gone < r[1][2] THEN r[1][2] - 1
                    ELSE r[1][2]
         IN  IF gone = r[1][2] THEN Arc(<<>>, r[2])
             ELSE Arc(<<r[1][1], pos>>, u2[pos])

\* The orders Irc::channels may list the channels in, for the routines
\* that loop over them.
FeedOrders(e) ==
    IF e.type = "Message" /\ e.code \in {"Quit", "Nick"}
    THEN IterationOrders(channels) ELSE {<<>>}

\* dispatch.feed(&event) begins: the feed runs up to its first write that
\* changes the store or the status (to its end when there is one such
\* write or none); todo gets the writes still to come, each with the event
\* and the store and status the feed began on.  cap bounds the number of
\* members the store holds afterwards.
FeedBegin(e, wok, cap) ==
    /\ pc = "loop"
    /\ todo = <<>>
    /\ \E r \in {feed([channels |-> channels, status |-> status,
                       calls |-> calls, sent |-> sent], e, settings, wok)},
          order \in FeedOrders(e) :
          \E p \in {FeedPath(e, r, order)} :
            /\ MemberCount(r.channels) <= cap
            /\ channels' = p[1].channels
            /\ status' = p[1].status
            /\ calls' = p[1].calls
            /\ sent' = p[1].sent
            /\ ev' = e
            /\ todo' = [k \in 1..(Len(p) - 1) |->
                            <<"write", e, p[k + 1],
                              [channels |-> channels, status |-> status]>>]
            /\ kept' = <<Follow(kept[1], channels, p[1].channels),
                         Follow(kept[2], channels, p[1].channels)>>
    /\ UNCHANGED <<settings, held>>

\* The feed the dispatch thread is in goes on to its next write; with the
\* last one it invokes the callback of the routine and returns.
FeedWrite ==
    /\ todo # <<>>
    /\ Head(todo)[1] = "write"
    /\ ev' = Head(todo)[2]
    /\ channels' = Head(todo)[3].channels
    /\ status' = Head(todo)[3].status
    /\ calls' = Head(todo)[3].calls
    /\ sent' = Head(todo)[3].sent
    /\ todo' = Tail(todo)
    /\ kept' = <<Follow(kept[1], channels, Head(todo)[3].channels),
                 Follow(kept[2], channels, Head(todo)[3].channels)>>
    /\ UNCHANGED <<settings, reader, taken, pc, held>>

\* dispatch.feed(&event): the body of the loop of dispatch.
FeedCore(e, wok) ==
    /\ FeedBegin(e, wok, MaxMembers)
    /\ ret' = None

\* The feed the dispatch thread is in goes on.
FeedGoesOn ==
    /\ FeedWrite
    /\ ret' = None

\* One call of Dispatch::feed from the loop of dispatch, the event being
\* whatever the transport delivers next.
Feed(e, wok) ==
    /\ FeedCore(e, wok)
    /\ UNCHANGED <<reader, taken, pc>>

\* The arms of the match in Dispatch::feed, one action each.
FeedClosed ==
    \E e \in {Lifecycle("Closed", txt)} :
        /\ e.type = "Closed"
        /\ Feed(e, AlwaysOk)
FeedDisconnected ==
    \E e \in {Lifecycle("Disconnected", <<>>)} :
        /\ e.type = "Disconnected"
        /\ Feed(e, AlwaysOk)
FeedReconnecting ==
    \E e \in {Lifecycle("Reconnecting", <<>>)} :
        /\ e.type = "Reconnecting"
        /\ Feed(e, AlwaysOk)
FeedReconnected ==
    \E e \in {Lifecycle("Reconnected", <<>>)}, wok \in [1..2 -> BOOLEAN] :
        /\ e.type = "Reconnected"
        /\ Feed(e, wok)
FeedWelcome ==
    \E e \in WelcomeEvents :
        /\ e.code = "RplWelcome"
        /\ Feed(e, AlwaysOk)
FeedNameReply ==
    \E e \in NameReplyEvents :
        /\ e.code = "RplNamreply"
        /\ Feed(e, AlwaysOk)
FeedEndNames ==
    \E e \in EndNamesEvents :
        /\ e.code = "RplEndofnames"
        /\ Feed(e, AlwaysOk)
FeedTopic ==
    \E e \in TopicEvents :
        /\ e.code = "Topic"
        /\ Feed(e, AlwaysOk)
FeedRplTopic ==
    \E e \in RplTopicEvents :
        /\ e.code = "RplTopic"
        /\ Feed(e, AlwaysOk)
FeedRplNoTopic ==
    \E e \in RplNoTopicEvents :
        /\ e.code = "RplNotopic"
        /\ Feed(e, AlwaysOk)
FeedJoin ==
    \E e \in JoinEvents :
        /\ e.code = "Join"
        /\ Feed(e, AlwaysOk)
FeedPart ==
    \E e \in PartEvents :
        /\ e.code = "Part"
        /\ Feed(e, AlwaysOk)
FeedPrivmsg ==
    \E e \in PrivmsgEvents :
        /\ e.code = "Privmsg"
        /\ Feed(e, AlwaysOk)
FeedNotice ==
    \E e \in NoticeEvents :
        /\ e.code = "Notice"
        /\ Feed(e, AlwaysOk)
FeedQuit ==
    \E e \in QuitEvents :
        /\ e.code = "Quit"
        /\ Feed(e, AlwaysOk)
FeedNick ==
    \E e \in NickEvents :
        /\ e.code = "Nick"
        /\ Feed(e, AlwaysOk)
FeedKick ==
    \E e \in KickEvents :
        /\ e.code = "Kick"
        /\ Feed(e, AlwaysOk)
FeedPing ==
    \E e \in PingEvents, wok \in [1..2 -> BOOLEAN] :
        /\ e.code = "Ping"
        /\ Feed(e, wok)
FeedPong ==
    \E e \in PongEvents :
        /\ e.code = "Pong"
        /\ Feed(e, AlwaysOk)
FeedMode ==
    \E e \in ModeEvents :
        /\ e.code = "Mode"
        /\ Feed(e, AlwaysOk)
FeedOther ==
    \E e \in OtherEvents :
        /\ e.type = "Message"
        /\ Feed(e, AlwaysOk)

----------------------------------------------------------------------------
(* Calls made by a handler, on the dispatch thread or on a thread the      *)
(* handler has spawned (examples/fifteen.rs), through its Arc<Irc>.        *)

\* A call, recorded in ev like an event: the operation and its arguments.
Call(op, a) ==
    [args |-> a, code |-> op, prefix |-> NoPrefix, reason |-> <<>>,
     type |-> "Call"]

\* A call of an accessor of the store.  It is told apart from a command:
\* Channel::user(nickname) is an accessor, IrcWrite::user(username,
\* realname) a command.
Access(op, a) ==
    [args |-> a, code |-> op, prefix |-> NoPrefix, reason |-> <<>>,
     type |-> "Read"]

WriteOps ==
    {"raw", "nick", "user", "ping", "pong", "pass", "privmsg", "notice",
     "join", "part", "quit", "get_topic", "set_topic", "kick"}

\* Number of arguments of a call; a trailing Option argument may be absent.
WriteArity(op) ==
    CASE op \in {"raw", "nick", "ping", "pong", "pass", "get_topic"} -> {1}
      [] op \in {"user", "privmsg", "notice", "set_topic", "kick"} -> {2}
      [] op \in {"join", "part"} -> {1, 2}
      [] op = "quit" -> {0, 1}

\* Texts a caller may pass: with and without a line break.
CallTexts == { <<"a">>, <<>>, <<"a", "\n", "a">>, <<"\r">> }

WriteCalls ==
    {Call(op, a) : op \in WriteOps,
                   a \in {<<>>} \cup {<<x>> : x \in CallTexts}
                           \cup {<<x, y>> : x \in CallTexts, y \in CallTexts}}

\* Commands with plain one-letter arguments.
PlainCalls == {c \in WriteCalls : \A i \in 1..Len(c.args) : c.args[i] = nA}

\* A call of raw or of a builder of IrcWrite on the state s: the line goes
\* to the Writer, the call returns what raw returns.
IrcWrite_call(s, op, a, wok) ==
    LET r == Irc_raw(s.sent, IrcWrite_payload(op, a), wok)
    IN  <<[s EXCEPT !.sent = r.sent], r.ret>>

\* What NickServ::identify passes to privmsg: the target "nickserv" and
\* format!("identify {}", password).
NickServ_args(password) ==
    << <<"n", "i", "c", "k", "s", "e", "r", "v">>,
       <<"i", "d", "e", "n", "t", "i", "f", "y", " ">> \o password >>

\* NickServ::identify (ext.rs), the extension of Irc: one privmsg, whose
\* result it returns.
NickServ_identify(s, password, wok) ==
    IrcWrite_call(s, "privmsg", NickServ_args(password), wok)

\* A close that records the closed connection itself.
Irc_close_MarksClosed(s, cok) ==
    IF cok THEN <<[s EXCEPT !.status = <<"Closed", <<>>>>], "Ok">>
    ELSE <<s, "WriterError">>

\* Irc::close: closes the Writer and returns its result; cok tells whether
\* the Writer could be closed.
Irc_close(s, cok) == <<s, IF cok THEN "Ok" ELSE "WriterError">>

\* Channel::name, topic, users and ChannelUser::nickname, status.
Channel_name(c) == c.name
Channel_topic(c) == c.topic
Channel_users(c) == c.users
ChannelUser_nickname(u) == u.nickname
ChannelUser_status(u) == u.status

\* The accessors of Irc, of Channel and of ChannelUser.
IrcOps == {"channel", "channels"}
ChannelOps == {"name", "topic", "users", "user"}
ChannelUserOps == {"nickname", "status"}
ReadOps == IrcOps \cup ChannelOps \cup ChannelUserOps

\* Irc::channel(a[1]) and Irc::channels() on the store of s.  order is the
\* order the map iterates in when Irc::channels is called.
Irc_read(s, op, a, order) ==
    IF op = "channels" THEN <<s, Irc_channels(s.channels, order)>>
    ELSE <<s, Irc_channel(s.channels, a[1])>>

\* An accessor called on a reference the handler keeps: those of Channel
\* on k[1], those of ChannelUser on k[2].  Each call locks the field of
\* that object, reads it and drops the lock (the name of a channel never
\* changes and has no lock).
Arc_read(k, op, a) ==
    CASE op = "name" -> Channel_name(k[1][2])
      [] op = "topic" -> Channel_topic(k[1][2])
      [] op = "users" -> Channel_users(k[1][2])
      [] op = "user" -> Channel_user(k[1][2], a[1])
      [] op = "nickname" -> ChannelUser_nickname(k[2][2])
      [] op = "status" -> ChannelUser_status(k[2][2])

\* The accessor calls a handler makes, one public call each.
ReadCalls ==
    {Access("channels", <<>>)}
    \cup {Access("channel", <<c>>) : c \in {cA, cAUpper, cB}}
    \cup {Access("user", <<n>>) : n \in {nA, nB}}
    \cup {Access(op, <<>>) :
            op \in {"name", "topic", "users", "nickname", "status"}}

\* One call a handler makes through its Arc<Irc> or through a reference k
\* it keeps: an accessor, close, identify, or a command.  wok tells whether the
\* Writer does what it is asked.
HandlerCall(s0, k, c, wok, order) ==
    LET s == [s0 EXCEPT !.calls = <<>>, !.sent = <<>>]
    IN  IF c.type = "Read"
        THEN IF c.code \in IrcOps
             THEN Irc_read(s, c.code, c.args, order)
             ELSE <<s, Arc_read(k, c.code, c.args)>>
        ELSE IF c.code = "close" THEN Irc_close(s, wok)
        ELSE IF c.code = "identify"
             THEN NickServ_identify(s, c.args[1], wok)
        ELSE IrcWrite_call(s, c.code, c.args, wok)

\* The step of a handler's thread that makes the one call c.
HandlerStep(c, wok, order) ==
    \E r \in {HandlerCall([channels |-> channels, status |-> status,
                           calls |-> calls, sent |-> sent], kept, c, wok,
                          order)} :
        /\ channels' = r[1].channels
        /\ status' = r[1].status
        /\ calls' = r[1].calls
        /\ sent' = r[1].sent
        /\ ret' = Some(r[2])
        /\ ev' = c
        /\ UNCHANGED <<settings, reader, taken, pc, held, todo>>

\* irc.raw(..) or one of the builders of IrcWrite, called by a handler.
Command ==
    \E c \in WriteCalls, wok \in BOOLEAN :
        /\ c.code \in WriteOps
        /\ Len(c.args) \in WriteArity(c.code)
        /\ HandlerStep(c, wok, <<>>)
        /\ UNCHANGED kept

\* irc.identify(password), called by a handler.
Identify ==
    \E password \in CallTexts, wok \in BOOLEAN :
        /\ HandlerStep(Call("identify", <<password>>), wok, <<>>)
        /\ UNCHANGED kept

\* irc.channels(), called by a handler, which keeps one of the channels of
\* the list or none.
ReadChannels ==
    \E c \in ReadCalls :
        /\ c.code = "channels"
        /\ \E order \in IterationOrders(channels) :
              HandlerStep(c, TRUE, order)
        /\ \E r \in {NoArc} \cup {Arc(<<id>>, channels[id]) :
                                    id \in DOMAIN channels} :
              kept' = IF r = NoArc THEN kept ELSE <<r, kept[2]>>

\* irc.channel(name), called by a handler: it keeps the Arc<Channel> when
\* there is one.
ObtainChannel ==
    \E c \in ReadCalls :
        /\ c.code = "channel"
        /\ HandlerStep(c, TRUE, <<>>)
        /\ kept' = IF IsSome(Unwrap(ret'))
                   THEN <<Arc(<<to_lowercase(c.args[1])>>,
                              Unwrap(Unwrap(ret'))), kept[2]>>
                   ELSE kept

\* The place of the member at index i of the channel the reference r is
\* to.
MemberPlace(r, i) == IF r[1] = <<>> THEN <<>> ELSE <<r[1][1], i>>

\* channel.user(nickname) on the channel the handler keeps, in the store or
\* not: it keeps the Arc<ChannelUser> when there is one.
ObtainUser ==
    \E c \in ReadCalls :
        /\ c.code = "user"
        /\ kept[1] # NoArc
        /\ HandlerStep(c, TRUE, <<>>)
        /\ kept' = IF IsSome(Unwrap(ret'))
                   THEN <<kept[1],
                          Arc(MemberPlace(kept[1],
                                          Position(kept[1][2].users,
                                                   c.args[1], 1)),
                              Unwrap(Unwrap(ret')))>>
                   ELSE kept

\* channel.name(), channel.topic() or channel.users() on the channel the
\* handler keeps; of the members channel.users() lists it keeps one or
\* none.
ReadChannel ==
    \E c \in ReadCalls :
        /\ c.code \in ChannelOps \ {"user"}
        /\ kept[1] # NoArc
        /\ HandlerStep(c, TRUE, <<>>)
        /\ \E r \in {NoArc}
                    \cup {Arc(MemberPlace(kept[1], i), kept[1][2].users[i]) :
                            i \in IF c.code = "users"
                                  THEN 1..Len(kept[1][2].users) ELSE {}} :
              kept' = IF r = NoArc THEN kept ELSE <<kept[1], r>>

\* user.nickname() or user.status() on the member the handler keeps.
ReadUser ==
    \E c \in ReadCalls :
        /\ c.code \in ChannelUserOps
        /\ kept[2] # NoArc
        /\ HandlerStep(c, TRUE, <<>>)
        /\ UNCHANGED kept

\* irc.close(), called by a handler.
Close ==
    \E c \in {Call("close", <<>>)}, cok \in BOOLEAN :
        /\ c.code = "close"
        /\ HandlerStep(c, cok, <<>>)
        /\ UNCHANGED kept

\* Raw member tokens: sigils, a lower-case and an upper-case letter.
TokenChars == {"~", "&", "@", "%", "+", "a", "T"}
Tokens == UNION {[1..n -> TokenChars] : n \in 0..MaxTokenLen}

\* ChannelUser::from_raw applied to the token ev names.
Decode ==
    /\ ev.type = "Call"
    /\ ev.code = "from_raw"
    /\ ret = None
    /\ ret' = Some(ChannelUser_from_raw(ev.args[1]))
    /\ UNCHANGED <<channels, status, settings, ev, calls, sent, reader,
                   taken, pc, held, todo, kept>>

----------------------------------------------------------------------------
(* dispatch: connect, identify, then feed every event of the Reader.       *)

\* At most this many events come from the Reader before it ends.
MaxEvents == 3

\* The events a Reader delivers in the specification of dispatch.
ReaderEvents ==
    { Lifecycle("Closed", txt), Lifecycle("Disconnected", <<>>),
      Message("Topic", UserPrefix(nA), <<cA, txt>>),
      Message("Ping", NoPrefix, <<txt>>) }

Readers == UNION {[1..n -> ReaderEvents] : n \in 0..MaxEvents}

\* An identification that goes on after a send has failed, as with
\* `let _ =` in place of try!, and returns what the last send returned.
dispatch_identify_GoesOn(cfg, wok) ==
    LET p == IF is_empty(cfg.password) THEN [sent |-> <<>>, ret |-> "Ok"]
             ELSE Irc_raw(<<>>, PassLine(cfg.password), wok[1])
        n == Irc_raw(p.sent, NickLine(cfg.nickname), wok[2])
        u == Irc_raw(n.sent, UserLine(cfg.username, cfg.realname), wok[3])
    IN  u

\* The sends before the loop: PASS when a password is set, NICK, USER,
\* each under try!, so the first failure is what dispatch returns.
dispatch_identify(cfg, wok) ==
    LET p == IF is_empty(cfg.password) THEN [sent |-> <<>>, ret |-> "Ok"]
             ELSE Irc_raw(<<>>, PassLine(cfg.password), wok[1])
        n == IF p.ret # "Ok" THEN p
             ELSE Irc_raw(p.sent, NickLine(cfg.nickname), wok[2])
        u == IF n.ret # "Ok" THEN n
             ELSE Irc_raw(n.sent, UserLine(cfg.username, cfg.realname),
                          wok[3])
    IN  u

\* A Reader that ends once it has delivered a Closed event.
reader_next_EndsAtClosed(r, k) ==
    IF k < Len(r) /\ (k = 0 \/ r[k].type # "Closed") THEN Some(r[k + 1])
    ELSE None

\* reader.iter().next(): the event after the k taken so far, None when the
\* sequence has ended.
reader_next(r, k) == IF k < Len(r) THEN Some(r[k + 1]) ELSE None

\* dispatch up to its loop: connect (cok: it succeeds), Irc::new, the
\* identification.
DispatchStart ==
    /\ pc = "start"
    /\ \E cok \in BOOLEAN, wok \in [1..3 -> BOOLEAN] :
        \E r \in {dispatch_identify(settings, wok)} :
            IF ~cok
            THEN /\ sent' = <<>>
                 /\ ret' = Some("ConnectError")
                 /\ pc' = "done"
            ELSE /\ sent' = r.sent
                 /\ ret' = IF r.ret = "Ok" THEN None ELSE Some(r.ret)
                 /\ pc' = IF r.ret = "Ok" THEN "loop" ELSE "done"
    /\ UNCHANGED <<channels, status, settings, ev, calls, reader, taken,
                   held, todo, kept>>

\* One turn of `for event in reader.iter() { dispatch.feed(&event); }`.
DispatchFeed ==
    /\ IsSome(reader_next(reader, taken))
    /\ \E wok \in [1..2 -> BOOLEAN] :
            FeedCore(Unwrap(reader_next(reader, taken)), wok)
    /\ taken' = taken + 1
    /\ UNCHANGED <<reader, pc>>

\* The Reader has ended: the loop is left and dispatch returns Ok(()).
DispatchReturn ==
    /\ pc = "loop"
    /\ todo = <<>>
    /\ IsNone(reader_next(reader, taken))
    /\ pc' = "done"
    /\ ret' = Some("Ok")
    /\ UNCHANGED <<channels, status, settings, ev, calls, sent, reader,
                   taken, held, todo, kept>>

----------------------------------------------------------------------------
(* The locks of the store.  Every Mutex is locked through a guard that     *)
(* lives to the end of the statement or of the method that takes it; what  *)
(* follows gives, for each method and each routine of Dispatch, the        *)
(* sequences of lock operations and callbacks its paths can make.  A path  *)
(* is taken whatever the data: an Option may be None or Some at each       *)
(* some_or_return!, a loop may turn 0 to MaxLoop times.  Where one thread  *)
(* is followed alone a lock is named by the field it guards: the thread    *)
(* never holds that field of two objects at once.                          *)

\* A loop over channels or members turns at most this many times.
MaxLoop == 1

Acq(l) == <<"acq", l>>
Rel(l) == <<"rel", l>>
Cb(name) == <<"cb", name>>
Back(name) == <<"ret", name>>

\* S, then T.
Then(S, T) == {s \o t : s \in S, t \in T}

\* S, or nothing: an early return, an `if let` that does not match.
OrNot(S) == S \cup {<<>>}

\* S, up to n times.
RECURSIVE Times(_, _)
Times(S, n) == IF n = 0 THEN {<<>>} ELSE OrNot(Then(S, Times(S, n - 1)))

\* S while a guard of lock l is alive.
Under(l, S) == {<<Acq(l)>> \o s \o <<Rel(l)>> : s \in S}

Locks_ChannelUser_nickname == Under("nickname", {<<>>})
Locks_ChannelUser_status == Under("member_status", {<<>>})
Locks_ChannelUser_set_nickname == Under("nickname", {<<>>})
Locks_ChannelUser_set_status == Under("member_status", {<<>>})

Locks_Channel_topic == Under("topic", {<<>>})
Locks_Channel_set_topic == Under("topic", {<<>>})
Locks_Channel_users == Under("users", {<<>>})
Locks_Channel_add_user == Under("users", {<<>>})

\* A Channel::user whose guard of the member list outlives the call.
Locks_Channel_user_KeepsGuard ==
    {<<Acq("users")>> \o s : s \in Times(Locks_ChannelUser_nickname, MaxLoop)}

\* Channel::user and Channel::remove_user read the nickname of one member
\* after the other under the guard of the member list.
Locks_Channel_user ==
    Under("users", Times(Locks_ChannelUser_nickname, MaxLoop))

\* A Channel::remove_user that reads the nickname first and takes the
\* member list while it still holds the nickname.
Locks_Channel_remove_user_NicknameFirst ==
    Under("nickname", Under("users", {<<>>}))

Locks_Channel_remove_user ==
    Under("users", Times(Locks_ChannelUser_nickname, MaxLoop))

Locks_Irc_get_channel_by_id == Under("channels", {<<>>})
Locks_Irc_channel == Locks_Irc_get_channel_by_id
Locks_Irc_channels == Under("channels", {<<>>})
Locks_Irc_ensure_channel_exists == Under("channels", {<<>>})
Locks_Irc_channel_set_topic ==
    Under("channels", OrNot(Locks_Channel_set_topic))
Locks_Irc_channel_add_user ==
    Under("channels", OrNot(Locks_Channel_add_user))
Locks_Irc_channel_del_user ==
    Then(Locks_Irc_get_channel_by_id, OrNot(Locks_Channel_remove_user))
Locks_Irc_channel_update_user_mode ==
    Then(Locks_Irc_get_channel_by_id,
         OrNot(Then(Locks_Channel_user,
                    OrNot(Then(Locks_ChannelUser_status,
                               Then(OrNot(Locks_ChannelUser_set_status),
                                    Locks_ChannelUser_status))))))
Locks_Irc_clear_channels == Under("channels", {<<>>})
Locks_Irc_set_status == Under("status", {<<>>})

\* The routines of Dispatch.
Locks_name_reply ==
    OrNot(Then(Locks_Irc_ensure_channel_exists,
               Times(Locks_Irc_channel_add_user, MaxLoop)))
Locks_end_name_reply ==
    OrNot(Then(Locks_Irc_channel, OrNot({<<Cb("channel_join")>>})))
Locks_topic_at(cb) ==
    OrNot(Then(Locks_Irc_ensure_channel_exists,
          Then(Locks_Irc_channel_set_topic,
          Then(Locks_Irc_get_channel_by_id,
               OrNot(Then(Locks_Channel_topic, {<<Cb(cb)>>}))))))
Locks_topic == Locks_topic_at("topic_change")
Locks_rpl_topic == Locks_topic_at("topic")
Locks_rpl_no_topic ==
    OrNot(Then(Locks_Irc_ensure_channel_exists,
          Then(Locks_Irc_channel_set_topic,
          Then(Locks_Irc_get_channel_by_id, OrNot({<<Cb("topic")>>})))))
Locks_join ==
    OrNot(Then(Locks_Irc_channel_add_user,
          Then(Locks_Irc_get_channel_by_id,
               OrNot(Then(Locks_Channel_user,
                          OrNot({<<Cb("user_join")>>}))))))
Locks_part ==
    OrNot(Then(Locks_Irc_channel_del_user,
          Then(Locks_Irc_get_channel_by_id,
               OrNot(Then(Locks_Channel_user,
                          OrNot({<<Cb("user_part")>>}))))))
Locks_message(notice) ==
    OrNot(Then(Locks_Irc_channel,
               OrNot(Then(Locks_Channel_user,
                          OrNot({<<Cb(IF notice THEN "channel_notice"
                                      ELSE "channel_msg")>>}))))
          \cup {<<Cb(IF notice THEN "private_notice" ELSE "private_msg")>>})
Locks_quit ==
    OrNot(Then(Locks_Irc_channels,
          Then(Times(Locks_Channel_remove_user, MaxLoop),
               {<<Cb("user_quit")>>})))
Locks_nick ==
    OrNot(Then(Locks_Irc_channels,
          Then(Times(Then(Locks_Channel_user,
                          OrNot(Locks_ChannelUser_set_nickname)), MaxLoop),
               {<<Cb("nick_change")>>})))
Locks_kick ==
    OrNot(Then(Locks_Irc_channel_del_user,
               OrNot(Then(Locks_Irc_get_channel_by_id,
                          OrNot({<<Cb("kick")>>})))))
Locks_ping == OrNot({<<Cb("ping")>>})
Locks_pong == OrNot({<<Cb("pong")>>})
Locks_mode ==
    OrNot(Then(Locks_Irc_channel_update_user_mode,
               OrNot(Then(Locks_Irc_get_channel_by_id,
                          OrNot(Then(Locks_Channel_user,
                                OrNot(Then(Locks_ChannelUser_status,
                                      {<<Cb("user_mode_change")>>}))))))))

\* Dispatch::feed.
Locks_feed(e) ==
    Then({<<Cb("any")>>},
      CASE e.type = "Closed" ->
              Then(Locks_Irc_set_status, {<<Cb("close")>>})
        [] e.type = "Disconnected" ->
              Then(Locks_Irc_set_status,
                   Then(Locks_Irc_clear_channels, {<<Cb("disconnect")>>}))
        [] e.type = "Reconnecting" ->
              Then(Locks_Irc_set_status, {<<Cb("reconnecting")>>})
        [] e.type = "Reconnected" ->
              Then(Locks_Irc_set_status, {<<Cb("reconnect")>>})
        [] e.type = "Message" ->
              Then({<<Cb("msg")>>},
              Then(IF is_error(e.code) THEN {<<Cb("error_msg")>>}
                   ELSE {<<>>},
                CASE e.code = "RplWelcome" -> {<<Cb("welcome")>>}
                  [] e.code = "RplNamreply" -> Locks_name_reply
                  [] e.code = "RplEndofnames" -> Locks_end_name_reply
                  [] e.code = "Topic" -> Locks_topic
                  [] e.code = "RplTopic" -> Locks_rpl_topic
                  [] e.code = "RplNotopic" -> Locks_rpl_no_topic
                  [] e.code = "Join" -> Locks_join
                  [] e.code = "Part" -> Locks_part
                  [] e.code = "Privmsg" -> Locks_message(FALSE)
                  [] e.code = "Notice" -> Locks_message(TRUE)
                  [] e.code = "Quit" -> Locks_quit
                  [] e.code = "Nick" -> Locks_nick
                  [] e.code = "Kick" -> Locks_kick
                  [] e.code = "Ping" -> Locks_ping
                  [] e.code = "Pong" -> Locks_pong
                  [] e.code = "Mode" -> Locks_mode
                  [] OTHER -> {<<>>})))

\* What a handler may call on the dispatch thread from inside a callback:
\* an accessor of the store, or something that takes none of its locks
\* (Channel::name, a command).
HandlerLocks ==
    {<<>>} \cup Locks_Irc_channel \cup Locks_Irc_channels
    \cup Locks_Channel_users \cup Locks_Channel_user
    \cup Locks_Channel_topic \cup Locks_ChannelUser_nickname
    \cup Locks_ChannelUser_status

\* One event of each kind; the paths do not depend on its fields.
LockEvents ==
    {Lifecycle(t, <<>>) :
        t \in {"Closed", "Disconnected", "Reconnecting", "Reconnected"}}
    \cup {Message(c, ServerPrefix, <<>>) :
            c \in {"RplWelcome", "RplNamreply", "RplEndofnames", "Topic",
                   "RplTopic", "RplNotopic", "Join", "Part", "Privmsg",
                   "Notice", "Quit", "Nick", "Kick", "Ping", "Pong", "Mode",
                   "ErrNosuchnick", "RplYourhost"}}

\* dispatch.feed(&event) begins: one of its paths lies ahead.
BeginFeed ==
    /\ pc = "loop"
    /\ todo = <<>>
    /\ \E e \in LockEvents :
        \E t \in Locks_feed(e) :
            /\ ev' = e
            /\ todo' = t
    /\ UNCHANGED <<channels, status, settings, calls, sent, ret, reader,
                   taken, pc, held, kept>>

\* Mutex::lock: the thread goes on only if the lock is free; a thread that
\* locks a Mutex it holds waits for itself.
Acquire ==
    /\ todo # <<>>
    /\ Head(todo)[1] = "acq"
    /\ Head(todo)[2] \notin held
    /\ held' = held \cup {Head(todo)[2]}
    /\ todo' = Tail(todo)
    /\ UNCHANGED <<channels, status, settings, ev, calls, sent, ret, reader,
                   taken, pc, kept>>

\* The guard is dropped.
Release ==
    /\ todo # <<>>
    /\ Head(todo)[1] = "rel"
    /\ held' = held \ {Head(todo)[2]}
    /\ todo' = Tail(todo)
    /\ UNCHANGED <<channels, status, settings, ev, calls, sent, ret, reader,
                   taken, pc, kept>>

\* self.listener.<cb>(..): the handler runs on the dispatch thread and may
\* call into the store before it returns.
Callback ==
    /\ todo # <<>>
    /\ Head(todo)[1] = "cb"
    /\ \E f \in HandlerLocks :
            todo' = f \o <<Back(Head(todo)[2])>> \o Tail(todo)
    /\ UNCHANGED <<channels, status, settings, ev, calls, sent, ret, reader,
                   taken, pc, held, kept>>

\* The callback returns.
CallbackReturn ==
    /\ todo # <<>>
    /\ Head(todo)[1] = "ret"
    /\ todo' = Tail(todo)
    /\ UNCHANGED <<channels, status, settings, ev, calls, sent, ret, reader,
                   taken, pc, held, kept>>

----------------------------------------------------------------------------
(* Specifications *)

\* dispatch at the head of its loop: Irc::new, nothing fed yet; the
\* settings are the caller's.
Init ==
    /\ channels = Irc_new.channels
    /\ status = Irc_new.status
    /\ settings \in {Settings_new(i, p) : i \in BOOLEAN, p \in BOOLEAN}
    /\ ev = Lifecycle("None", <<>>)
    /\ calls = <<>>
    /\ sent = <<>>
    /\ ret = None
    /\ reader = <<>>
    /\ taken = 0
    /\ pc = "loop"
    /\ held = {}
    /\ todo = <<>>
    /\ kept = NoKept

\* dispatch with the settings Settings::new gives.
InitDefault == Init /\ settings = Settings_new(TRUE, TRUE)

Next ==
    \/ FeedClosed
    \/ FeedDisconnected
    \/ FeedReconnecting
    \/ FeedReconnected
    \/ FeedWelcome
    \/ FeedNameReply
    \/ FeedEndNames
    \/ FeedTopic
    \/ FeedRplTopic
    \/ FeedRplNoTopic
    \/ FeedJoin
    \/ FeedPart
    \/ FeedPrivmsg
    \/ FeedNotice
    \/ FeedQuit
    \/ FeedNick
    \/ FeedKick
    \/ FeedPing
    \/ FeedPong
    \/ FeedMode
    \/ FeedOther
    \/ FeedGoesOn

Spec == Init /\ [][Next]_vars

\* Membership events only.
NextMembers ==
    \/ FeedNameReply
    \/ FeedEndNames
    \/ FeedJoin
    \/ FeedPart
    \/ FeedQuit
    \/ FeedNick
    \/ FeedKick
    \/ FeedGoesOn

SpecMembers == InitDefault /\ [][NextMembers]_vars

\* Name lists: the replies that fill a channel and the one that ends the
\* list, and the Part that takes a member out again.
NextNameList ==
    \/ FeedNameReply
    \/ FeedEndNames
    \/ FeedPart
    \/ FeedGoesOn

SpecNameList == InitDefault /\ [][NextNameList]_vars

\* Channel creation and topics.
NextTopic ==
    \/ FeedNameReply
    \/ FeedEndNames
    \/ FeedTopic
    \/ FeedRplTopic
    \/ FeedRplNoTopic
    \/ FeedDisconnected
    \/ FeedGoesOn

SpecTopic == InitDefault /\ [][NextTopic]_vars

\* Mode changes of the members a name reply brought.
NextMode ==
    \/ FeedNameReply
    \/ FeedMode
    \/ FeedGoesOn

SpecMode == InitDefault /\ [][NextMode]_vars

\* The characters an event carries in its prefix and its arguments.
Chars(e) ==
    {e.prefix.nickname[k] : k \in 1..Len(e.prefix.nickname)}
    \cup UNION {{e.args[i][k] : k \in 1..Len(e.args[i])} :
                   i \in 1..Len(e.args)}

\* The events of a set that speak of channel "#a" and nickname "a" only.
OneChannel(E) == {e \in E : Chars(e) \cap {"b", "A"} = {}}

\* The events of a set that speak of "#a", "#A" and nickname "a" only.
TwoSpellings(E) == {e \in E : "b" \notin Chars(e)}

\* A whole session: every arm of Dispatch::feed, the lifecycle events
\* included, with the messages about one channel and one nickname, under
\* every combination of the two settings flags.
NextSession ==
    \/ FeedClosed
    \/ FeedDisconnected
    \/ FeedReconnecting
    \/ FeedReconnected
    \/ \E e \in OneChannel(WelcomeEvents) :
          /\ e.code = "RplWelcome"
          /\ Feed(e, AlwaysOk)
    \/ \E e \in OneChannel(NameReplyEvents) :
          /\ e.code = "RplNamreply"
          /\ Feed(e, AlwaysOk)
    \/ \E e \in OneChannel(EndNamesEvents) :
          /\ e.code = "RplEndofnames"
          /\ Feed(e, AlwaysOk)
    \/ \E e \in OneChannel(TopicEvents) :
          /\ e.code = "Topic"
          /\ Feed(e, AlwaysOk)
    \/ \E e \in OneChannel(RplTopicEvents) :
          /\ e.code = "RplTopic"
          /\ Feed(e, AlwaysOk)
    \/ \E e \in OneChannel(RplNoTopicEvents) :
          /\ e.code = "RplNotopic"
          /\ Feed(e, AlwaysOk)
    \/ \E e \in OneChannel(JoinEvents) :
          /\ e.code = "Join"
          /\ Feed(e, AlwaysOk)
    \/ \E e \in OneChannel(PartEvents) :
          /\ e.code = "Part"
          /\ Feed(e, AlwaysOk)
    \/ \E e \in OneChannel(PrivmsgEvents) :
          /\ e.code = "Privmsg"
          /\ Feed(e, AlwaysOk)
    \/ \E e \in OneChannel(NoticeEvents) :
          /\ e.code = "Notice"
          /\ Feed(e, AlwaysOk)
    \/ \E e \in OneChannel(QuitEvents) :
          /\ e.code = "Quit"
          /\ Feed(e, AlwaysOk)
    \/ \E e \in OneChannel(NickEvents) :
          /\ e.code = "Nick"
          /\ Feed(e, AlwaysOk)
    \/ \E e \in OneChannel(KickEvents) :
          /\ e.code = "Kick"
          /\ Feed(e, AlwaysOk)
    \/ \E e \in OneChannel(PingEvents), wok \in [1..2 -> BOOLEAN] :
          /\ e.code = "Ping"
          /\ Feed(e, wok)
    \/ \E e \in OneChannel(PongEvents) :
          /\ e.code = "Pong"
          /\ Feed(e, AlwaysOk)
    \/ \E e \in OneChannel(ModeEvents) :
          /\ e.code = "Mode"
          /\ Feed(e, AlwaysOk)
    \/ \E e \in OneChannel(OtherEvents) :
          /\ e.type = "Message"
          /\ Feed(e, AlwaysOk)
    \/ FeedGoesOn

SpecSession == Init /\ [][NextSession]_vars

\* The lifecycle events and the events that touch the channels of the
\* store, with both spellings of the channel name.
NextLifecycle ==
    \/ FeedClosed
    \/ FeedDisconnected
    \/ FeedReconnecting
    \/ FeedReconnected
    \/ \E e \in TwoSpellings(NameReplyEvents) :
          /\ e.code = "RplNamreply"
          /\ Feed(e, AlwaysOk)
    \/ \E e \in TwoSpellings(TopicEvents) :
          /\ e.code = "Topic"
          /\ Feed(e, AlwaysOk)
    \/ \E e \in TwoSpellings(RplTopicEvents) :
          /\ e.code = "RplTopic"
          /\ Feed(e, AlwaysOk)
    \/ \E e \in TwoSpellings(PartEvents) :
          /\ e.code = "Part"
          /\ Feed(e, AlwaysOk)
    \/ \E e \in TwoSpellings(QuitEvents) :
          /\ e.code = "Quit"
          /\ Feed(e, AlwaysOk)
    \/ \E e \in TwoSpellings(KickEvents) :
          /\ e.code = "Kick"
          /\ Feed(e, AlwaysOk)
    \/ FeedGoesOn

SpecLifecycle == InitDefault /\ [][NextLifecycle]_vars

\* Messages and notices to the channels and members name replies brought.
NextMessage ==
    \/ FeedNameReply
    \/ FeedPrivmsg
    \/ FeedNotice
    \/ FeedDisconnected
    \/ FeedGoesOn

SpecMessage == InitDefault /\ [][NextMessage]_vars

\* The dispatch thread at work on one channel while threads spawned by
\* handlers read the store, one public call at a time, on the references
\* they keep between the calls, write commands and close the connection;
\* the name replies fed here add the member a, the mode changes grant and
\* revoke operator status.
NextThreads ==
    \/ FeedClosed
    \/ FeedDisconnected
    \/ \E e \in OneChannel(NameReplyEvents) :
          /\ e.code = "RplNamreply"
          /\ Len(e.args) = 4
          /\ e.args[4] = nA
          /\ Feed(e, AlwaysOk)
    \/ \E e \in OneChannel(TopicEvents) :
          /\ e.code = "Topic"
          /\ e.args = <<cA, txt>>
          /\ Feed(e, AlwaysOk)
    \/ \E e \in OneChannel(ModeEvents) :
          /\ e.code = "Mode"
          /\ Len(e.args) = 3
          /\ e.args[2] \in { <<"+", "o">>, <<"-", "o">> }
          /\ Feed(e, AlwaysOk)
    \/ \E c \in PlainCalls, wok \in BOOLEAN :
          /\ c.code \in WriteOps
          /\ Len(c.args) \in WriteArity(c.code)
          /\ HandlerStep(c, wok, <<>>)
          /\ UNCHANGED kept
    \/ \E wok \in BOOLEAN :
          /\ HandlerStep(Call("identify", <<nA>>), wok, <<>>)
          /\ UNCHANGED kept
    \/ ReadChannels
    \/ ObtainChannel
    \/ ObtainUser
    \/ ReadChannel
    \/ ReadUser
    \/ Close
    \/ FeedGoesOn

SpecThreads == InitDefault /\ [][NextThreads]_vars

\* dispatch from its first line to its return, over every Reader of up to
\* MaxEvents events, without a server password, with one, and with one
\* that holds a line break.
InitDispatch ==
    /\ channels = Irc_new.channels
    /\ status = Irc_new.status
    /\ settings \in {Settings_new(TRUE, TRUE),
                     Settings_password(Settings_new(TRUE, TRUE), <<"p">>),
                     Settings_password(Settings_new(TRUE, TRUE), <<"\n">>)}
    /\ ev = Lifecycle("None", <<>>)
    /\ calls = <<>>
    /\ sent = <<>>
    /\ ret = None
    /\ reader \in Readers
    /\ taken = 0
    /\ pc = "start"
    /\ held = {}
    /\ todo = <<>>
    /\ kept = NoKept

NextDispatch ==
    \/ DispatchStart
    \/ DispatchFeed
    \/ DispatchReturn
    \/ FeedGoesOn

\* The thread that runs dispatch is scheduled as long as it has a step.
SpecDispatch ==
    InitDispatch /\ [][NextDispatch]_vars /\ WF_vars(NextDispatch)

\* The dispatch thread followed lock by lock through every path of feed.
NextLocks ==
    \/ BeginFeed
    \/ Acquire
    \/ Release
    \/ Callback
    \/ CallbackReturn

SpecLocks == InitDefault /\ [][NextLocks]_vars

\* ChannelUser::from_raw on its own: any token, then its decoding.
InitDecode ==
    /\ channels = Irc_new.channels
    /\ status = Irc_new.status
    /\ settings = Settings_new(TRUE, TRUE)
    /\ ev \in {Call("from_raw", <<t>>) : t \in Tokens}
    /\ calls = <<>>
    /\ sent = <<>>
    /\ ret = None
    /\ reader = <<>>
    /\ taken = 0
    /\ pc = "loop"
    /\ held = {}
    /\ todo = <<>>
    /\ kept = NoKept

NextDecode == Decode

SpecDecode == InitDecode /\ [][NextDecode]_vars

\* Commands written by handlers and by the dispatcher itself (the answer
\* to Ping, the identity after Reconnected).
NextWrite ==
    \/ Command
    \/ Identify
    \/ FeedPing
    \/ FeedReconnected

SpecWrite == Init /\ [][NextWrite]_vars

----------------------------------------------------------------------------
(* A Channel on its own, as in test_channel: Channel::new, then add_user,  *)
(* remove_user and set_topic in any order, read through the accessors.     *)

\* The member list of the channel on its own has at most this many members.
MaxChannelUsers == 3

\* The key the channel on its own is kept under.
UnderTest == cA

\* Members to add: two spellings of one nickname, another nickname, and a
\* second member of a nickname already used.
ChannelMembers ==
    { ChannelUser_new(<<"a">>, "Normal"), ChannelUser_new(<<"A">>, "Normal"),
      ChannelUser_new(<<"b">>, "Operator"),
      ChannelUser_new(<<"a">>, "Operator") }

LookupNicks == { <<"a">>, <<"A">>, <<"b">> }

ChannelTopics == { txt, <<"u">>, <<>> }

\* One call on the channel: the channel afterwards and what the call returns.
ChannelStep(c, after, result) ==
    /\ channels' = [channels EXCEPT ![UnderTest] = after]
    /\ ev' = c
    /\ ret' = result
    /\ UNCHANGED <<status, settings, calls, sent, reader, taken, pc, held,
                   todo, kept>>

ChannelAddUser ==
    \E u \in ChannelMembers :
        /\ Len(channels[UnderTest].users) < MaxChannelUsers
        /\ ChannelStep(Call("add_user", <<u.nickname, u.status>>),
                       Channel_add_user(channels[UnderTest], u), None)

ChannelRemoveUser ==
    \E n \in LookupNicks :
        \E r \in {Channel_remove_user(channels[UnderTest], n)} :
            ChannelStep(Call("remove_user", <<n>>), r.channel, Some(r.ret))

ChannelSetTopic ==
    \E t \in ChannelTopics :
        ChannelStep(Call("set_topic", <<t>>),
                    Channel_set_topic(channels[UnderTest], t), None)

ChannelLookup ==
    \E n \in LookupNicks :
        ChannelStep(Call("user", <<n>>), channels[UnderTest],
                    Some(Channel_user(channels[UnderTest], n)))

ChannelReadUsers ==
    ChannelStep(Call("users", <<>>), channels[UnderTest],
                Some(Channel_users(channels[UnderTest])))

ChannelReadName ==
    ChannelStep(Call("name", <<>>), channels[UnderTest],
                Some(Channel_name(channels[UnderTest])))

ChannelReadTopic ==
    ChannelStep(Call("topic", <<>>), channels[UnderTest],
                Some(Channel_topic(channels[UnderTest])))

\* Channel::new(name) for either spelling of the name.
InitChannel ==
    /\ ev \in {Call("new", <<n>>) : n \in {cA, cAUpper}}
    /\ channels = [k \in {UnderTest} |-> Channel_new(ev.args[1])]
    /\ status = Irc_new.status
    /\ settings = Settings_new(TRUE, TRUE)
    /\ calls = <<>>
    /\ sent = <<>>
    /\ ret = None
    /\ reader = <<>>
    /\ taken = 0
    /\ pc = "loop"
    /\ held = {}
    /\ todo = <<>>
    /\ kept = NoKept

NextChannel ==
    \/ ChannelAddUser
    \/ ChannelRemoveUser
    \/ ChannelSetTopic
    \/ ChannelLookup
    \/ ChannelReadUsers
    \/ ChannelReadName
    \/ ChannelReadTopic

SpecChannel == InitChannel /\ [][NextChannel]_vars

----------------------------------------------------------------------------
(* Name replies whose trailing argument is not a clean list of nicknames *)

\* Trailing arguments: "", "a ", " a", "  ", "@", "@ a" and the plain "a".
RaggedLists ==
    { <<>>, <<"a", " ">>, <<" ", "a">>, <<" ", " ">>, <<"@">>,
      <<"@", " ", "a">>, <<"a">> }

FeedRaggedNameReply ==
    \E e \in { Message("RplNamreply", ServerPrefix, <<me, <<"=">>, c, l>>) :
                  c \in {cA, cB}, l \in RaggedLists } :
        /\ e.code = "RplNamreply"
        /\ Feed(e, AlwaysOk)

NextNames ==
    \/ FeedRaggedNameReply
    \/ FeedEndNames
    \/ FeedPart
    \/ FeedDisconnected
    \/ FeedGoesOn

SpecNames == InitDefault /\ [][NextNames]_vars

----------------------------------------------------------------------------
(* References held by handlers. Irc::channel and Channel::user hand out    *)
(* clones of the Arc the store holds: the handler's reference and the       *)
(* store's entry are one object as long as the store holds it. The objects  *)
(* of the initial store carry an oid to tell them apart; an object the      *)
(* dispatcher creates later carries none. An update in place keeps the oid. *)

\* A member and a channel that carry an oid.
TaggedUser(nickname, st, o) == [status |-> st, nickname |-> nickname, oid |-> o]

TaggedChannel(name, topic_text, users, o) ==
    [name |-> name, topic |-> topic_text, users |-> users, oid |-> o]

\* The stores the references are taken from: a on "#a" and "#b", b on
\* "#a"; a is Operator or Normal on "#a", and "#a" has the topic "t".
TaggedStores ==
    { [id \in {cA, cB} |->
          IF id = cA
          THEN TaggedChannel(cA, Some(txt), << TaggedUser(nA, st, 1),
                                              TaggedUser(nB, "Normal", 2) >>,
                             10)
          ELSE TaggedChannel(cB, None, << TaggedUser(nA, "Voice", 3) >>, 11)] :
        st \in {"Operator", "Normal"} }

HasOid(x, o) == "oid" \in DOMAIN x /\ x.oid = o

\* Where the store holds the member object o, and where the channel object.
MemberPlaces(chs, o) ==
    {p \in (DOMAIN chs) \X (1..(MaxMembers + 1)) :
        /\ p[2] <= Len(chs[p[1]].users)
        /\ HasOid(chs[p[1]].users[p[2]], o)}

ChannelPlaces(chs, o) == {id \in DOMAIN chs : HasOid(chs[id], o)}

\* dispatch.feed(&event) while a handler's thread keeps references.
FeedAliased(e) ==
    /\ FeedBegin(e, AlwaysOk, MaxMembers + 1)
    /\ ret' = None
    /\ UNCHANGED <<reader, taken, pc>>

AliasedNick ==
    \E e \in NickEvents :
        /\ e.code = "Nick"
        /\ e.prefix.kind = "User"
        /\ Len(e.args) = 1
        /\ e.args[1] # e.prefix.nickname
        /\ FeedAliased(e)

AliasedPart ==
    \E e \in { Message("Part", UserPrefix(nA), <<cA>>) } :
        /\ e.code = "Part"
        /\ FeedAliased(e)

AliasedTopic ==
    \E e \in { Message("Topic", UserPrefix(nA), <<cA, t>>) :
                  t \in {<<"u">>, <<>>} } :
        /\ e.code = "Topic"
        /\ FeedAliased(e)

AliasedNameReply ==
    \E e \in { Message("RplNamreply", ServerPrefix, <<me, <<"=">>, cA, l>>) :
                  l \in { <<"b">> } } :
        /\ e.code = "RplNamreply"
        /\ FeedAliased(e)

AliasedDisconnected ==
    \E e \in {Lifecycle("Disconnected", <<>>)} :
        /\ e.type = "Disconnected"
        /\ FeedAliased(e)

\* The dispatcher at the head of its loop with a store that name replies
\* and a topic reply have filled; no reference handed out yet.
InitRefs ==
    /\ channels \in TaggedStores
    /\ status = Irc_new.status
    /\ settings = Settings_new(TRUE, TRUE)
    /\ ev = Lifecycle("None", <<>>)
    /\ calls = <<>>
    /\ sent = <<>>
    /\ ret = None
    /\ reader = <<>>
    /\ taken = 0
    /\ pc = "loop"
    /\ held = {}
    /\ todo = <<>>
    /\ kept = NoKept

\* Renames and departures while a handler keeps references.
NextRefs ==
    \/ ObtainUser
    \/ ObtainChannel
    \/ AliasedNick
    \/ AliasedPart
    \/ AliasedTopic
    \/ AliasedDisconnected
    \/ ReadChannel
    \/ ReadUser
    \/ FeedGoesOn

SpecRefs == InitRefs /\ [][NextRefs]_vars

\* A disconnect and the events that fill the store again while a handler
\* keeps references.
NextDetach ==
    \/ ObtainUser
    \/ ObtainChannel
    \/ AliasedDisconnected
    \/ AliasedNameReply
    \/ AliasedTopic
    \/ ReadChannel
    \/ ReadUser
    \/ FeedGoesOn

SpecDetach == InitRefs /\ [][NextDetach]_vars

----------------------------------------------------------------------------
(* The dispatch thread and the threads handlers spawn, lock by lock. Here  *)
(* todo and held give, for each thread, the lock operations of the call it *)
(* is in and the locks it holds.  Every Channel has a Mutex of its own for *)
(* its member list and one for its topic, every ChannelUser one for its    *)
(* nickname and one for its status: a lock is a field of one object,       *)
(* <<field, object>>, the object being <<>> for the Irc, <<c>> for a       *)
(* channel and <<c, n>> for a member of it.                                *)

Threads == {"dispatch", "spawned1", "spawned2"}

\* The channels and members whose locks the threads contend for.
ChannelObjects == {<<cA>>, <<cB>>}
MemberObjects == {<<cA, nA>>, <<cB, nA>>}

\* The lock operations of a path, without its callbacks.
LockOnly(path) == SelectSeq(path, LAMBDA x : x[1] \in {"acq", "rel"})

\* The objects whose field f a call can lock while it holds the locks open:
\* the member list and topic of any channel, the nickname and status of a
\* member of the channel whose member list is held, or of any member when the
\* call is made on a reference the caller kept.
ObjectsFor(f, open) ==
    CASE f \in {"channels", "status"} -> {<<>>}
      [] f \in {"users", "topic"} ->
            IF \E l \in open : Len(l[2]) = 2
            THEN {<<l[2][1]>> : l \in {x \in open : Len(x[2]) = 2}}
            ELSE ChannelObjects
      [] f \in {"nickname", "member_status"} ->
            LET cs == {l[2] : l \in {x \in open : x[1] = "users"}}
            IN  {m \in MemberObjects : cs = {} \/ <<m[1]>> \in cs}

\* A thread about to call lock() calls it on one object: the first
\* operation of the path, when it takes a lock, names it.
Aim(path, open) ==
    IF path = <<>> \/ Head(path)[1] # "acq" THEN {path}
    ELSE {<<Acq(<<Head(path)[2], o>>)>> \o Tail(path) :
            o \in ObjectsFor(Head(path)[2], open)}

HeldByAny == UNION {held[th] : th \in Threads}

\* dispatch.feed(&event) begins on the dispatch thread.
ContendFeed ==
    /\ pc = "loop"
    /\ todo["dispatch"] = <<>>
    /\ \E e \in LockEvents :
        \E p \in Locks_feed(e) :
            \E t \in Aim(LockOnly(p), {}) :
                /\ t # <<>>
                /\ ev' = e
                /\ todo' = [todo EXCEPT !["dispatch"] = t]
    /\ UNCHANGED <<channels, status, settings, calls, sent, ret, reader,
                   taken, pc, held, kept>>

\* A spawned thread begins a call of a public accessor; the command
\* builders, is_closed and close take none of the locks of the store.
ContendCall ==
    /\ \E th \in Threads \ {"dispatch"} :
        /\ todo[th] = <<>>
        /\ \E f \in HandlerLocks \ {<<>>} :
            \E t \in Aim(f, {}) :
                todo' = [todo EXCEPT ![th] = t]
    /\ UNCHANGED <<channels, status, settings, ev, calls, sent, ret, reader,
                   taken, pc, held, kept>>

\* Mutex::lock by one thread: it goes on only if no thread holds the lock
\* of that field of that object.
ContendAcquire ==
    /\ \E th \in Threads :
        /\ todo[th] # <<>>
        /\ Head(todo[th])[1] = "acq"
        /\ Head(todo[th])[2] \notin HeldByAny
        /\ held' = [held EXCEPT ![th] = @ \cup {Head(todo[th])[2]}]
        /\ \E t \in Aim(Tail(todo[th]), held'[th]) :
              todo' = [todo EXCEPT ![th] = t]
    /\ UNCHANGED <<channels, status, settings, ev, calls, sent, ret, reader,
                   taken, pc, kept>>

\* A guard is dropped: the guard of that field the thread holds.
ContendRelease ==
    /\ \E th \in Threads :
        /\ todo[th] # <<>>
        /\ Head(todo[th])[1] = "rel"
        /\ held' = [held EXCEPT
                      ![th] = {l \in @ : l[1] # Head(todo[th])[2]}]
        /\ \E t \in Aim(Tail(todo[th]), held'[th]) :
              todo' = [todo EXCEPT ![th] = t]
    /\ UNCHANGED <<channels, status, settings, ev, calls, sent, ret, reader,
                   taken, pc, kept>>

InitContend ==
    /\ channels = Irc_new.channels
    /\ status = Irc_new.status
    /\ settings = Settings_new(TRUE, TRUE)
    /\ ev = Lifecycle("None", <<>>)
    /\ calls = <<>>
    /\ sent = <<>>
    /\ ret = None
    /\ reader = <<>>
    /\ taken = 0
    /\ pc = "loop"
    /\ held = [th \in Threads |-> {}]
    /\ todo = [th \in Threads |-> <<>>]
    /\ kept = NoKept

NextContend ==
    \/ ContendFeed
    \/ ContendCall
    \/ ContendAcquire
    \/ ContendRelease

SpecContend == InitContend /\ [][NextContend]_vars

----------------------------------------------------------------------------
(* Vocabulary of the properties *)

\* No feed is under way: the step that makes this true ends a feed.
Fed == todo = <<>>

\* The store and the status the feed under way began on; between feeds,
\* those the next feed begins on.
Before == IF todo = <<>> THEN channels ELSE Head(todo)[4].channels

StatusBefore == IF todo = <<>> THEN status ELSE Head(todo)[4].status

\* The callbacks named cb among those of the last feed.
CallsOf(log, cb) == {i \in 1..Len(log) : log[i].cb = cb}

\* The callbacks of the last feed other than any, msg and error_msg.
Specialised(log) ==
    {i \in 1..Len(log) : log[i].cb \notin {"any", "msg", "error_msg"}}

\* Pairwise distinct nicknames in one member list.
Distinct(users) ==
    \A i, j \in 1..Len(users) :
        i # j => users[i].nickname # users[j].nickname

\* What Irc::channels() may return: the channels of the store, in each
\* order the map may iterate in.
Listed(chs) == {Irc_channels(chs, o) : o \in IterationOrders(chs)}

HasUser(chs, id, n) ==
    id \in DOMAIN chs /\ IsSome(Channel_user(chs[id], n))

\* The event of the step is a message of this code that has a user prefix
\* when needUser, and at least nargs arguments.
IsMsg(e, code, needUser, nargs) ==
    /\ e.type = "Message"
    /\ e.code = code
    /\ needUser => e.prefix.kind = "User"
    /\ Len(e.args) >= nargs

----------------------------------------------------------------------------
(* C1 *)

\* C1: in every reachable state each channel's member list holds at most
\* one member per nickname.
C1_OneMemberPerNickname ==
    \A id \in DOMAIN channels : Distinct(channels[id].users)

----------------------------------------------------------------------------
(* C2 *)

\* C2: in every reachable state every entry of the channel map is stored
\* under the lowercased display name of its channel, so that Irc::channel
\* finds it under every letter case of its name.
C2_KeyIsLowercasedName ==
    \A id \in DOMAIN channels :
        /\ id = to_lowercase(channels[id].name)
        /\ \A n \in ChannelNames :
              to_lowercase(n) = to_lowercase(channels[id].name)
                  => Irc_channel(channels, n) = Some(channels[id])

----------------------------------------------------------------------------
(* C3 *)

\* C3: a Kick naming a known channel and one of its members removes that
\* member and invokes kick exactly once with the channel and the removed
\* member; otherwise nothing is removed and kick is not invoked.
C3_KickRemovesAndNotifies ==
    [][ IsMsg(ev', "Kick", FALSE, 2) =>
          LET id == to_lowercase(ev'.args[1])
              n == ev'.args[Len(ev'.args)]
          IN  IF HasUser(channels, id, n)
              THEN /\ channels' = [channels EXCEPT ![id] =
                                     Channel_remove_user(@, n).channel]
                   /\ Cardinality(CallsOf(calls', "kick")) = 1
                   /\ \A i \in CallsOf(calls', "kick") :
                         /\ calls'[i].channel = Some(channels'[id])
                         /\ calls'[i].user = Channel_user(channels[id], n)
              ELSE /\ channels' = channels
                   /\ CallsOf(calls', "kick") = {} ]_vars

----------------------------------------------------------------------------
(* C4 *)

\* C4: Irc::channel_del_user removes the member with the given nickname
\* from the given channel and returns it when it is present; when the
\* channel or the member is absent it returns nothing and the store is
\* unchanged.
C4_DelUserReturnsMember ==
    \A id \in {to_lowercase(c) : c \in ChannelNames}, n \in Nicks :
        LET r == Irc_channel_del_user(channels, id, n) IN
        IF HasUser(channels, id, n)
        THEN /\ r.ret = Channel_user(channels[id], n)
             /\ r.channels = [channels EXCEPT ![id] =
                                Channel_remove_user(@, n).channel]
        ELSE /\ r.ret = None
             /\ r.channels = channels

----------------------------------------------------------------------------
(* C5 *)

\* C5: a Part with a user prefix for a known channel of which the sender is
\* a member removes the sender from the member list and invokes user_part
\* exactly once with that channel and that member.
C5_PartRemovesAndNotifies ==
    [][ IsMsg(ev', "Part", TRUE, 1) =>
          LET id == to_lowercase(ev'.args[1])
              n == ev'.prefix.nickname
          IN  HasUser(channels, id, n) =>
                /\ channels' = [channels EXCEPT ![id] =
                                  Channel_remove_user(@, n).channel]
                /\ Cardinality(CallsOf(calls', "user_part")) = 1
                /\ \A i \in CallsOf(calls', "user_part") :
                      /\ calls'[i].channel = Some(channels'[id])
                      /\ calls'[i].user = Channel_user(channels[id], n) ]_vars

----------------------------------------------------------------------------
(* C6 *)

\* The transition table of the specification, section 4.2; the row
\* Operator/Owner is read as: every token but -o leaves the status as it is.
SpecTable(old, m) ==
    CASE old = "Normal" ->
            (CASE m = <<"+", "v">> -> "Voice"
               [] m = <<"+", "h">> -> "HalfOperator"
               [] m = <<"+", "o">> -> "Operator"
               [] OTHER -> "Normal")
      [] old = "Voice" ->
            (CASE m = <<"-", "v">> -> "Normal"
               [] m = <<"+", "h">> -> "HalfOperator"
               [] m = <<"+", "o">> -> "Operator"
               [] OTHER -> "Voice")
      [] old = "HalfOperator" ->
            (CASE m = <<"-", "h">> -> "Normal"
               [] m = <<"+", "o">> -> "Operator"
               [] OTHER -> "HalfOperator")
      [] old \in {"Operator", "Owner"} ->
            (CASE m = <<"-", "o">> -> "Normal"
               [] OTHER -> old)

\* C6: the status a Mode message gives a member equals the transition
\* table of the specification, for every current status and every token
\* of {+v,-v,+h,-h,+o,-o}.
C6_ModeMatchesTable ==
    [][ (IsMsg(ev', "Mode", FALSE, 3) /\ ev'.args[2] \in ModeTokens) =>
          LET id == to_lowercase(ev'.args[1])
              m == ev'.args[2]
              n == ev'.args[3]
          IN  HasUser(channels, id, n) =>
                LET pos == Position(channels[id].users, n, 1) IN
                channels'[id].users[pos].status =
                    SpecTable(channels[id].users[pos].status, m) ]_vars

----------------------------------------------------------------------------
(* C7 *)

\* C7: after a Quit with a user prefix the quitting nickname is found in no
\* channel of the store, already when user_quit is invoked, and the members
\* with other nicknames are untouched.
C7_QuitRemovesEverywhere ==
    [][ (Fed' /\ IsMsg(ev', "Quit", TRUE, 0)) =>
          LET n == ev'.prefix.nickname IN
          /\ DOMAIN channels' = DOMAIN Before
          /\ \A id \in DOMAIN channels' :
                /\ IsNone(Channel_user(channels'[id], n))
                /\ SelectSeq(channels'[id].users,
                             LAMBDA u : u.nickname # n)
                     = SelectSeq(Before[id].users,
                                 LAMBDA u : u.nickname # n)
          /\ Cardinality(CallsOf(calls', "user_quit")) = 1
          /\ \A i \in CallsOf(calls', "user_quit") :
                \A id \in DOMAIN calls'[i].store :
                    IsNone(Channel_user(calls'[i].store[id], n)) ]_vars

----------------------------------------------------------------------------
(* C8 *)

\* C8: a Nick message (old -> new) renames the member named old in every
\* channel that contains it and changes nothing in the other channels:
\* afterwards, where old was a member, old is not found and new is; the
\* nick_change callback gets (old, new) and sees all channels updated.
C8_NickRenamesEverywhere ==
    [][ (Fed' /\ IsMsg(ev', "Nick", TRUE, 1)
            /\ ev'.prefix.nickname # ev'.args[Len(ev'.args)]) =>
          LET old == ev'.prefix.nickname
              new == ev'.args[Len(ev'.args)]
          IN  /\ DOMAIN channels' = DOMAIN Before
              /\ \A id \in DOMAIN Before :
                    IF IsSome(Channel_user(Before[id], old))
                    THEN /\ IsNone(Channel_user(channels'[id], old))
                         /\ IsSome(Channel_user(channels'[id], new))
                    ELSE channels'[id] = Before[id]
              /\ Cardinality(CallsOf(calls', "nick_change")) = 1
              /\ \A i \in CallsOf(calls', "nick_change") :
                    /\ calls'[i].args = <<old, new>>
                    /\ calls'[i].store = channels' ]_vars

----------------------------------------------------------------------------
(* C9 *)

\* C9: from a state in which every channel has pairwise distinct member
\* nicknames, a Nick message leaves every channel with pairwise distinct
\* member nicknames.
C9_NickKeepsDistinct ==
    [][ (Fed' /\ IsMsg(ev', "Nick", TRUE, 1)
            /\ \A id \in DOMAIN Before : Distinct(Before[id].users))
          => \A id \in DOMAIN channels' : Distinct(channels'[id].users) ]_vars

----------------------------------------------------------------------------
(* C10 *)

\* C10: a Topic message (channel name at argument 0) or a topic-query reply
\* (channel name at argument 1) with a non-empty topic text T for a channel
\* name N leaves Irc::channel(N) present with topic T and invokes
\* topic_change (respectively topic) exactly once with that channel and T.
C10_TopicSetsAndNotifies ==
    [][ \A k \in {0, 1} :
          LET code == IF k = 0 THEN "Topic" ELSE "RplTopic"
              cb == IF k = 0 THEN "topic_change" ELSE "topic"
          IN  (Fed' /\ IsMsg(ev', code, FALSE, k + 2)
                  /\ ~is_empty(ev'.args[Len(ev'.args)])) =>
                LET N == ev'.args[k + 1]
                    T == ev'.args[Len(ev'.args)]
                    channel == Irc_channel(channels', N)
                IN  /\ IsSome(channel)
                    /\ Unwrap(channel).topic = Some(T)
                    /\ Cardinality(CallsOf(calls', cb)) = 1
                    /\ \A i \in CallsOf(calls', cb) :
                          /\ calls'[i].channel = channel
                          /\ calls'[i].args = <<Some(T)>> ]_vars

----------------------------------------------------------------------------
(* C11 *)

\* The status a lifecycle event asks for, and the callback that reports it.
StatusAfter(e) ==
    CASE e.type = "Closed" -> <<"Closed", e.reason>>
      [] e.type = "Disconnected" -> <<"Disconnected">>
      [] e.type = "Reconnecting" -> <<"Reconnecting">>
      [] e.type = "Reconnected" -> <<"Connected">>

LifecycleCallback(e) ==
    CASE e.type = "Closed" -> "close"
      [] e.type = "Disconnected" -> "disconnect"
      [] e.type = "Reconnecting" -> "reconnecting"
      [] e.type = "Reconnected" -> "reconnect"

LifecycleTypes == {"Closed", "Disconnected", "Reconnecting", "Reconnected"}

\* C11: the connection status starts as Connected, and after a lifecycle
\* event it is the status of that event whatever it was before
\* (Closed(reason), Disconnected, Reconnecting, and Connected after
\* Reconnected); the matching callback is invoked once and already sees
\* the new status.
C11_LifecycleSetsStatus ==
    /\ ev.type = "None" => status = <<"Connected">>
    /\ ev.type \in LifecycleTypes =>
          /\ status = StatusAfter(ev)
          /\ Fed => Cardinality(CallsOf(calls, LifecycleCallback(ev))) = 1
          /\ \A i \in CallsOf(calls, LifecycleCallback(ev)) :
                calls[i].status = StatusAfter(ev)

\* A Reconnected event dispatched while the status was Closed.
C11_Witness ==
    /\ ev.type = "Reconnected"
    /\ calls[1].status = <<"Closed", txt>>
    /\ status = <<"Connected">>
    /\ CallsOf(calls, "reconnect") # {}

----------------------------------------------------------------------------
(* C12 *)

\* C12: dispatching a Message event, of any code, prefix and arguments,
\* leaves the connection status as it was, and every callback of that
\* dispatch sees that same status; a step that changes the status is the
\* dispatch of one of the four lifecycle events.
C12_MessageKeepsStatus ==
    [][ /\ ev'.type = "Message" =>
              /\ status' = status
              /\ \A i \in 1..Len(calls') : calls'[i].status = status
        /\ status' # status => ev'.type \in LifecycleTypes ]_vars

\* A message with a specialised callback dispatched while the status is
\* Disconnected.
C12_Witness ==
    /\ ev.type = "Message"
    /\ status = <<"Disconnected">>
    /\ calls[1].status = <<"Disconnected">>
    /\ Specialised(calls) # {}

----------------------------------------------------------------------------
(* C13 *)

\* C13: after a Disconnected event the store holds no channel:
\* Irc::channels() is empty and Irc::channel(n) is absent for the key and
\* the display name of every channel known before, and the disconnect
\* callback, invoked once, already sees the empty store; a Reconnecting or
\* Reconnected event dispatched on an empty store leaves it empty.
C13_DisconnectClearsStore ==
    [][ /\ (Fed' /\ ev'.type = "Disconnected") =>
              /\ Listed(channels') = {<<>>}
              /\ \A id \in DOMAIN Before :
                    /\ IsNone(Irc_channel(channels', id))
                    /\ IsNone(Irc_channel(channels', Before[id].name))
              /\ Cardinality(CallsOf(calls', "disconnect")) = 1
              /\ \A i \in CallsOf(calls', "disconnect") :
                    Listed(calls'[i].store) = {<<>>}
        /\ (ev'.type \in {"Reconnecting", "Reconnected"}
              /\ Listed(channels) = {<<>>}) =>
              Listed(channels') = {<<>>} ]_vars

\* A Disconnected event dispatched on a store that held a channel with a
\* member.
C13_Witness ==
    /\ ev.type = "Disconnected"
    /\ \E id \in DOMAIN calls[1].store : calls[1].store[id].users # <<>>
    /\ Listed(channels) = {<<>>}
    /\ CallsOf(calls, "disconnect") # {}

----------------------------------------------------------------------------
(* C14 *)

IsPrefixOf(a, b) == Len(a) <= Len(b) /\ SubSeq(b, 1, Len(a)) = a

\* C14: a channel of the store stays in it under the same key and with the
\* same display name over every event but Disconnected, and is never
\* replaced by a fresh channel: a Closed, Reconnecting or Reconnected event
\* leaves it as it is, a Part, Kick or Quit keeps its topic, a repeated
\* Name-reply keeps its topic and its members (new ones are appended), and
\* a Topic event keeps its members.
C14_ChannelStaysUntilDisconnect ==
    [][ ev'.type # "Disconnected" =>
          \A id \in DOMAIN channels :
              /\ id \in DOMAIN channels'
              /\ channels'[id].name = channels[id].name
              /\ ev'.type \in {"Closed", "Reconnecting", "Reconnected"} =>
                    channels'[id] = channels[id]
              /\ (ev'.type = "Message"
                    /\ ev'.code \in {"Part", "Kick", "Quit"}) =>
                    channels'[id].topic = channels[id].topic
              /\ (ev'.type = "Message" /\ ev'.code = "RplNamreply") =>
                    /\ channels'[id].topic = channels[id].topic
                    /\ IsPrefixOf(channels[id].users, channels'[id].users)
              /\ (ev'.type = "Message"
                    /\ ev'.code \in {"Topic", "RplTopic"}) =>
                    channels'[id].users = channels[id].users ]_vars

\* A second Name-reply, spelling the name differently, for a channel that
\* has a topic and a member: the channel keeps its name, topic and member
\* and gains the new member.
C14_Witness ==
    /\ Fed
    /\ ev.type = "Message" /\ ev.code = "RplNamreply" /\ Len(ev.args) = 4
    /\ \E id \in DOMAIN calls[1].store :
          /\ to_lowercase(ev.args[3]) = id
          /\ ev.args[3] # calls[1].store[id].name
          /\ IsSome(calls[1].store[id].topic)
          /\ calls[1].store[id].users # <<>>
          /\ id \in DOMAIN channels
          /\ channels[id].name = calls[1].store[id].name
          /\ Len(channels[id].users) > Len(calls[1].store[id].users)

----------------------------------------------------------------------------
(* C15 *)

\* The message codes Dispatch::feed has a routine for.
RoutineCodes ==
    {"RplWelcome", "RplNamreply", "RplEndofnames", "Topic", "RplTopic",
     "RplNotopic", "Join", "Part", "Privmsg", "Notice", "Quit", "Nick",
     "Kick", "Ping", "Pong", "Mode"}

\* C15: every dispatch invokes any exactly once, first, on the store and
\* the status as they were before the event; a Message event then invokes
\* msg once, still on the unchanged store, then error_msg once if and only
\* if the code is an error reply, then at most one specialised callback,
\* last; a message whose code has no routine invokes no further callback,
\* changes neither the store nor the status and sends nothing.
C15_CallbackOrder ==
    [][ /\ CallsOf(calls', "any") = {1}
        /\ calls'[1].store = Before
        /\ calls'[1].status = StatusBefore
        /\ ev'.type = "Message" =>
              /\ CallsOf(calls', "msg") = {2}
              /\ calls'[2].store = Before
              /\ CallsOf(calls', "error_msg") =
                    (IF is_error(ev'.code) THEN {3} ELSE {})
              /\ \A i \in CallsOf(calls', "error_msg") :
                    calls'[i].store = Before
              /\ Cardinality(Specialised(calls')) <= 1
              /\ \A i \in Specialised(calls') : i = Len(calls')
              /\ ev'.code \notin RoutineCodes =>
                    /\ Specialised(calls') = {}
                    /\ channels' = channels
                    /\ status' = status
                    /\ sent' = <<>> ]_vars

\* An error reply without a routine, dispatched on a store that holds a
\* member: any, msg and error_msg in this order and nothing else.
C15_Witness ==
    /\ ev.type = "Message"
    /\ ev.code = "ErrNosuchnick"
    /\ Len(calls) = 3
    /\ calls[1].cb = "any" /\ calls[2].cb = "msg" /\ calls[3].cb = "error_msg"
    /\ \E id \in DOMAIN channels : channels[id].users # <<>>
    /\ calls[1].store = channels

----------------------------------------------------------------------------
(* C16 *)

\* The member a name-list token stands for: the status of its sigil and
\* the nickname without the sigil.
SigilStatus(ch) ==
    CASE ch = "~" -> "Owner"
      [] ch = "&" -> "Owner"
      [] ch = "@" -> "Operator"
      [] ch = "%" -> "HalfOperator"
      [] ch = "+" -> "Voice"
      [] OTHER -> "Normal"

MemberOfToken(t) ==
    IF t # <<>> /\ SigilStatus(Head(t)) # "Normal"
    THEN [status |-> SigilStatus(Head(t)), nickname |-> Tail(t)]
    ELSE [status |-> "Normal", nickname |-> t]

MembersOfTokens(toks) == [i \in 1..Len(toks) |-> MemberOfToken(toks[i])]

\* C16: a Name-reply for a channel appends to its member list (empty when
\* the channel is new) one member per token of the user list, in token
\* order, each with the nickname stripped of its sigil and the status of
\* the sigil; End-of-names for a channel of the store passes that channel,
\* with the members so collected, to channel_join.
C16_NameListBecomesMembers ==
    [][ /\ (Fed' /\ IsMsg(ev', "RplNamreply", FALSE, 3)) =>
              LET id == to_lowercase(ev'.args[3])
                  before == IF id \in DOMAIN Before
                            THEN Before[id].users ELSE <<>>
                  toks == split(ev'.args[Len(ev'.args)])
              IN  /\ id \in DOMAIN channels'
                  /\ channels'[id].users = before \o MembersOfTokens(toks)
        /\ (IsMsg(ev', "RplEndofnames", FALSE, 2)
              /\ to_lowercase(ev'.args[2]) \in DOMAIN channels) =>
              LET id == to_lowercase(ev'.args[2]) IN
              /\ channels' = channels
              /\ \E i \in CallsOf(calls', "channel_join") :
                    calls'[i].channel = Some(channels[id]) ]_vars

\* End-of-names after the user list "@a +b" on a new channel: channel_join
\* gets the two members a (Operator) and b (Voice), in this order.
C16_Witness ==
    /\ IsMsg(ev, "RplEndofnames", FALSE, 2)
    /\ \E i \in CallsOf(calls, "channel_join") :
          Unwrap(calls[i].channel).users =
              << [status |-> "Operator", nickname |-> nA],
                 [status |-> "Voice", nickname |-> nB] >>

----------------------------------------------------------------------------
(* C17 *)

\* C17: a dispatch invokes channel_join if and only if its event is an
\* End-of-names message whose channel name (argument 1) is in the store,
\* and then exactly once; a Name-reply invokes no specialised callback at
\* all; an End-of-names for a channel that is not in the store invokes no
\* specialised callback and leaves the store and the status as they were.
C17_ChannelJoinOnlyAtEndOfNames ==
    [][ LET known == /\ IsMsg(ev', "RplEndofnames", FALSE, 2)
                     /\ IsSome(Irc_channel(channels, ev'.args[2]))
        IN  /\ Cardinality(CallsOf(calls', "channel_join")) =
                  (IF known THEN 1 ELSE 0)
            /\ IsMsg(ev', "RplNamreply", FALSE, 0) =>
                  Specialised(calls') = {}
            /\ (IsMsg(ev', "RplEndofnames", FALSE, 0) /\ ~known) =>
                  /\ Specialised(calls') = {}
                  /\ channels' = channels
                  /\ status' = status
                  /\ sent' = <<>> ]_vars

\* End-of-names for a channel of the store that holds a member:
\* channel_join is invoked once, with that channel, after any and msg.
C17_Witness ==
    /\ IsMsg(ev, "RplEndofnames", FALSE, 2)
    /\ IsSome(Irc_channel(calls[1].store, ev.args[2]))
    /\ Len(calls) = 3
    /\ calls[3].cb = "channel_join"
    /\ calls[3].channel = Irc_channel(channels, ev.args[2])
    /\ Unwrap(calls[3].channel).users # <<>>

----------------------------------------------------------------------------
(* C18 *)

\* C18: a dispatch invokes user_mode_change if and only if its event is a
\* Mode message (channel, token, nickname) whose channel is in the store
\* and has a member of that nickname whose status the message changes, and
\* then once, with that channel and member and with (old, new): the
\* member's status before and after the message, which differ.  A Mode
\* message for an unknown channel or member leaves the store as it was and
\* invokes no specialised callback.
C18_ModeChangeNotifies ==
    [][ LET isMode == IsMsg(ev', "Mode", FALSE, 3)
            id == to_lowercase(ev'.args[1])
            n == ev'.args[3]
            known == isMode /\ HasUser(channels, id, n)
            pos == Position(channels[id].users, n, 1)
            old == channels[id].users[pos].status
            new == channels'[id].users[pos].status
        IN  /\ Cardinality(CallsOf(calls', "user_mode_change")) =
                  (IF known /\ old # new THEN 1 ELSE 0)
            /\ \A i \in CallsOf(calls', "user_mode_change") :
                  /\ calls'[i].args = <<old, new>>
                  /\ calls'[i].channel = Some(channels'[id])
                  /\ calls'[i].user = Some(channels'[id].users[pos])
            /\ (isMode /\ ~known) =>
                  /\ channels' = channels
                  /\ Specialised(calls') = {} ]_vars

\* A Mode message that makes a Normal member an Operator, reported with
\* (Normal, Operator).
C18_Witness ==
    /\ IsMsg(ev, "Mode", FALSE, 3)
    /\ \E i \in CallsOf(calls, "user_mode_change") :
          /\ calls[i].args = <<"Normal", "Operator">>
          /\ Unwrap(calls[i].user).status = "Operator"

----------------------------------------------------------------------------
(* C19 *)

\* C19: a Mode message for a member of a channel of the store, with any
\* token, "+b", "+ov" and the empty string included, completes and changes
\* at most the status of that member, to one of the five statuses; a token
\* the transition table does not list for the member's status, and so
\* every token outside {+v,-v,+h,-h,+o,-o}, leaves the status unchanged
\* and invokes no callback.
C19_ModeTranslationTotal ==
    [][ IsMsg(ev', "Mode", FALSE, 3) =>
          LET id == to_lowercase(ev'.args[1])
              m == ev'.args[2]
              n == ev'.args[3]
          IN  HasUser(channels, id, n) =>
                LET pos == Position(channels[id].users, n, 1)
                    old == channels[id].users[pos].status
                    new == channels'[id].users[pos].status
                IN  /\ new \in Statuses
                    /\ channels' =
                          [channels EXCEPT ![id].users[pos].status = new]
                    /\ SpecTable(old, m) = old =>
                          /\ new = old
                          /\ Specialised(calls') = {}
                    /\ m \notin ModeTokens => new = old ]_vars

\* The token "+ov" for a Normal member: the store is as before and no
\* callback but any and msg is invoked.
C19_Witness ==
    /\ IsMsg(ev, "Mode", FALSE, 3)
    /\ ev.args[2] = <<"+", "o", "v">>
    /\ HasUser(calls[1].store, to_lowercase(ev.args[1]), ev.args[3])
    /\ Channel_user(calls[1].store[to_lowercase(ev.args[1])],
                    ev.args[3]) = Some(ChannelUser_new(ev.args[3], "Normal"))
    /\ channels = calls[1].store
    /\ Len(calls) = 2

----------------------------------------------------------------------------
(* C20 *)

\* C20: a Mode message gives Owner status to no member that was not Owner
\* and changes the status of no member that is Owner.
C20_OwnerUntouched ==
    [][ IsMsg(ev', "Mode", FALSE, 3) =>
          LET id == to_lowercase(ev'.args[1])
              n == ev'.args[3]
          IN  HasUser(channels, id, n) =>
                LET pos == Position(channels[id].users, n, 1)
                    old == channels[id].users[pos].status
                    new == channels'[id].users[pos].status
                IN  (old = "Owner") <=> (new = "Owner") ]_vars

\* C20, amended: a Mode message gives Owner status to no member that was
\* not Owner; the token -o changes the status of a member that is Owner
\* to Normal, and no other token changes it.
C20_OwnerLostOnlyByMinusO ==
    [][ IsMsg(ev', "Mode", FALSE, 3) =>
          LET id == to_lowercase(ev'.args[1])
              m == ev'.args[2]
              n == ev'.args[3]
          IN  HasUser(channels, id, n) =>
                LET pos == Position(channels[id].users, n, 1)
                    old == channels[id].users[pos].status
                    new == channels'[id].users[pos].status
                IN  /\ old # "Owner" => new # "Owner"
                    /\ old = "Owner" =>
                          new = (IF m = <<"-", "o">> THEN "Normal"
                                 ELSE "Owner") ]_vars

\* The token -o for a member that is Owner: the member is Normal
\* afterwards and the change is reported.
C20_Witness ==
    /\ IsMsg(ev, "Mode", FALSE, 3)
    /\ ev.args[2] = <<"-", "o">>
    /\ \E i \in CallsOf(calls, "user_mode_change") :
          calls[i].args = <<"Owner", "Normal">>

----------------------------------------------------------------------------
(* C21 *)

\* The line a command makes, as the Writer gets it.
Wire(payload) == payload \o <<"\n">>

\* C21: a Ping that carries the server's name makes the dispatcher, when
\* the automatic answer is enabled, hand exactly one "PONG <server>" to the
\* Writer, and this before the ping callback; when it is disabled the
\* dispatcher sends nothing.  The ping callback is invoked exactly once
\* with the server's name either way, also when the Writer refuses the
\* line.
C21_PingAutoPong ==
    [][ IsMsg(ev', "Ping", FALSE, 1) =>
            LET server == ev'.args[Len(ev'.args)]
            IN  /\ Cardinality(CallsOf(calls', "ping")) = 1
                /\ \A i \in CallsOf(calls', "ping") :
                        /\ calls'[i].args = <<server>>
                        /\ calls'[i].nsent = Len(sent')
                /\ IF settings.auto_ping
                   THEN /\ Len(sent') = 1
                        /\ sent'[1][1] = Wire(PongLine(server))
                   ELSE sent' = <<>> ]_vars

\* A Ping was answered, the Writer refused the line and the ping callback
\* was invoked all the same, after the attempt.
C21_Witness ==
    /\ IsMsg(ev, "Ping", FALSE, 1)
    /\ settings.auto_ping
    /\ sent = << <<Wire(PongLine(ev.args[1])), FALSE>> >>
    /\ \E i \in CallsOf(calls, "ping") : calls[i].nsent = 1

----------------------------------------------------------------------------
(* C22 *)

\* Number of line-break characters in a text.
RECURSIVE Breaks(_)
Breaks(t) ==
    IF t = <<>> THEN 0
    ELSE (IF Head(t) \in {"\n", "\r"} THEN 1 ELSE 0) + Breaks(Tail(t))

\* C22: a call of raw or of a builder (nick, user, pass, ping, pong,
\* privmsg, notice, join, part, quit, get_topic, set_topic, kick) whose
\* payload contains a line feed or a carriage return returns Multiline and
\* hands nothing to the Writer; any other call hands exactly one line to
\* the Writer, the payload followed by the line terminator; so does
\* NickServ::identify, whose payload is PRIVMSG nickserv :identify and the
\* password.  Every line ever handed to the Writer, by a handler or by the
\* dispatcher, has exactly one line break, its last character.
C22_OneLinePerCommand ==
    [][ /\ (ev'.type = "Call" /\ ev'.code \in WriteOps \cup {"identify"}) =>
            LET payload ==
                    IF ev'.code = "identify"
                    THEN <<"P", "R", "I", "V", "M", "S", "G", " ", "n", "i",
                           "c", "k", "s", "e", "r", "v", " ", ":", "i", "d",
                           "e", "n", "t", "i", "f", "y", " ">> \o ev'.args[1]
                    ELSE IrcWrite_payload(ev'.code, ev'.args)
                broken == \E i \in 1..Len(ev'.args) : Breaks(ev'.args[i]) > 0
            IN  /\ broken <=> Breaks(payload) > 0
                /\ IF broken
                   THEN ret' = Some("Multiline") /\ sent' = <<>>
                   ELSE /\ Len(sent') = 1
                        /\ sent'[1][1] = payload \o <<"\n">>
                        /\ ret' = Some(IF sent'[1][2] THEN "Ok"
                                       ELSE "WriterError")
        /\ \A i \in 1..Len(sent') :
                /\ Breaks(sent'[i][1]) = 1
                /\ sent'[i][1][Len(sent'[i][1])] = "\n" ]_vars

\* A builder was refused for a line break in one of its arguments.
C22_Witness ==
    /\ ev.type = "Call" /\ ev.code = "privmsg"
    /\ ev.args = << <<"a">>, <<"a", "\n", "a">> >>
    /\ ret = Some("Multiline")
    /\ sent = <<>>

----------------------------------------------------------------------------
(* C23 *)

\* The number of arguments a routine needs for the indexes it reads
\* (get(i) needs i + 1, last() needs one).
ArgsRead(code) ==
    CASE code \in {"RplNamreply", "Mode"} -> 3
      [] code \in {"RplEndofnames", "RplTopic"} -> 2
      [] code \in {"Topic", "RplNotopic", "Join", "Part", "Privmsg",
                   "Notice", "Nick", "Kick", "Ping", "Pong"} -> 1
      [] OTHER -> 0

\* The routines that need the sender to be a user.
UserRead == {"Join", "Part", "Privmsg", "Notice", "Quit", "Nick"}

Malformed(e) ==
    /\ e.type = "Message"
    /\ e.code \in RoutineCodes
    /\ \/ Len(e.args) < ArgsRead(e.code)
       \/ e.code \in UserRead /\ e.prefix.kind # "User"

\* C23: a message that lacks an argument its routine reads, or whose
\* sender is not a user where the routine needs one, changes neither the
\* store nor the connection status and invokes no callback besides any and
\* msg (and error_msg for an error reply); the loop of dispatch goes on, so
\* the events after it are dispatched from the same state.
C23_MalformedIsNoOp ==
    [][ Malformed(ev') =>
            /\ channels' = channels
            /\ status' = status
            /\ Specialised(calls') = {}
            /\ CallsOf(calls', "any") = {1}
            /\ CallsOf(calls', "msg") = {2}
            /\ Len(calls') = 2
            /\ sent' = <<>>
            /\ pc' = "loop" ]_vars

\* A Join without a user prefix was dispatched while the store held a
\* channel with a member.
C23_Witness ==
    /\ ev = Message("Join", ServerPrefix, <<cA>>)
    /\ \E id \in DOMAIN channels : channels[id].users # <<>>
    /\ Len(calls) = 2

----------------------------------------------------------------------------
(* C24 *)

\* C24: after a Reconnected event with auto_ident set, the dispatcher has
\* handed USER <username> 8 * :<realname> and then NICK <nickname> to the
\* Writer, both before the reconnect callback, which is invoked exactly
\* once whether or not the Writer took the lines; with auto_ident unset
\* nothing is sent and the reconnect callback is invoked exactly once.
C24_ReconnectIdentifies ==
    [][ ev'.type = "Reconnected" =>
            /\ Cardinality(CallsOf(calls', "reconnect")) = 1
            /\ \A i \in CallsOf(calls', "reconnect") :
                    calls'[i].nsent = Len(sent')
            /\ IF settings.auto_ident
               THEN /\ Len(sent') = 2
                    /\ sent'[1][1] =
                         Wire(UserLine(settings.username, settings.realname))
                    /\ sent'[2][1] = Wire(NickLine(settings.nickname))
               ELSE sent' = <<>> ]_vars

\* Reconnected with auto_ident set: the Writer refused both lines and the
\* reconnect callback was invoked after the two attempts.
C24_Witness ==
    /\ ev.type = "Reconnected"
    /\ settings.auto_ident
    /\ Len(sent) = 2 /\ ~sent[1][2] /\ ~sent[2][2]
    /\ \E i \in CallsOf(calls, "reconnect") : calls[i].nsent = 2

----------------------------------------------------------------------------
(* C25 *)

\* The channel a message is aimed at is in the store and holds a member
\* with the sender's nickname.
SenderIsMember(chs, target, n) ==
    /\ to_lowercase(target) \in DOMAIN chs
    /\ \E i \in 1..Len(chs[to_lowercase(target)].users) :
            chs[to_lowercase(target)].users[i].nickname = n

\* C25: a Privmsg (Notice) from a user whose target starts with '#'
\* invokes channel_msg (channel_notice), with the channel, the member and
\* the text, if and only if the target channel is in the store and the
\* sender's nickname is a member of it, and no specialised callback
\* otherwise; one whose target does not start with '#' invokes private_msg
\* (private_notice) with the sender and the text.  The store and the status
\* are never changed.
C25_MessageRouting ==
    [][ \A code \in {"Privmsg", "Notice"} :
          IsMsg(ev', code, TRUE, 1) =>
            LET target == ev'.args[1]
                text == ev'.args[Len(ev'.args)]
                n == ev'.prefix.nickname
                toChannel == IF code = "Privmsg" THEN "channel_msg"
                             ELSE "channel_notice"
                toUser == IF code = "Privmsg" THEN "private_msg"
                          ELSE "private_notice"
            IN  /\ channels' = channels
                /\ status' = status
                /\ Cardinality(Specialised(calls')) <= 1
                /\ IF Head(target) = "#"
                   THEN /\ CallsOf(calls', toUser) = {}
                        /\ SenderIsMember(channels, target, n)
                              <=> CallsOf(calls', toChannel) # {}
                        /\ ~SenderIsMember(channels, target, n)
                              => Specialised(calls') = {}
                        /\ \A i \in CallsOf(calls', toChannel) :
                              /\ calls'[i].channel =
                                    Some(channels[to_lowercase(target)])
                              /\ IsSome(calls'[i].user)
                              /\ Unwrap(calls'[i].user).nickname = n
                              /\ calls'[i].args = <<text>>
                   ELSE /\ Specialised(calls') = CallsOf(calls', toUser)
                        /\ Cardinality(CallsOf(calls', toUser)) = 1
                        /\ \A i \in CallsOf(calls', toUser) :
                              calls'[i].args = <<n, text>> ]_vars

\* A notice to "#A" from a member of "#a" reached channel_notice.
C25_Witness ==
    /\ IsMsg(ev, "Notice", TRUE, 1)
    /\ ev.args[1] = cAUpper
    /\ SenderIsMember(channels, cAUpper, ev.prefix.nickname)
    /\ CallsOf(calls, "channel_notice") # {}

----------------------------------------------------------------------------
(* C26 *)

\* C26: decoding a raw member token gives Owner for a leading '~' or '&',
\* Operator for '@', HalfOperator for '%', Voice for '+' and Normal
\* otherwise (the empty token included); the nickname is the token without
\* its first character when that is a sigil, whatever follows it, and the
\* whole token otherwise.
C26_DecodeToken ==
    (ev.type = "Call" /\ ev.code = "from_raw" /\ IsSome(ret)) =>
        LET t == ev.args[1]
            m == Unwrap(ret)
        IN  /\ m.status =
                 (IF t = <<>> THEN "Normal"
                  ELSE CASE Head(t) \in {"~", "&"} -> "Owner"
                         [] Head(t) = "@" -> "Operator"
                         [] Head(t) = "%" -> "HalfOperator"
                         [] Head(t) = "+" -> "Voice"
                         [] OTHER -> "Normal")
            /\ m.status = "Normal" => m.nickname = t
            /\ m.status # "Normal" =>
                    /\ Len(m.nickname) = Len(t) - 1
                    /\ <<Head(t)>> \o m.nickname = t
            /\ t = <<"@", "a">> => m = ChannelUser_new(<<"a">>, "Operator")
            /\ t = <<"a">> => m = ChannelUser_new(<<"a">>, "Normal")
            /\ t = <<"+", "T", "a">> =>
                    m = ChannelUser_new(<<"T", "a">>, "Voice")

\* A token with two sigils was decoded: the second one stays in the
\* nickname.
C26_Witness ==
    /\ ev.type = "Call" /\ ev.code = "from_raw"
    /\ ev.args[1] = <<"@", "+", "a">>
    /\ ret = Some(ChannelUser_new(<<"+", "a">>, "Operator"))

----------------------------------------------------------------------------
(* C27 *)

\* The channel an event clears the topic of: a Topic change or a topic
\* reply whose text is empty, or a no-topic reply.  None for other events.
TopicCleared(e) ==
    IF IsMsg(e, "Topic", FALSE, 2) /\ e.args[Len(e.args)] = <<>>
    THEN Some(e.args[1])
    ELSE IF IsMsg(e, "RplTopic", FALSE, 3) /\ e.args[Len(e.args)] = <<>>
    THEN Some(e.args[2])
    ELSE IF IsMsg(e, "RplNotopic", FALSE, 1)
    THEN Some(e.args[1])
    ELSE None

\* C27: an empty topic text in a Topic change or in a topic reply, and a
\* no-topic reply, for a channel of the store leave that channel in the
\* store with its name and its members, set its topic to absent, and pass
\* the channel with an absent topic to topic_change (for Topic) or to topic
\* (for the replies), once.  No channel ever has the empty text as its
\* topic.
C27_EmptyTopicClears ==
    [][ /\ \A id \in DOMAIN channels' : channels'[id].topic # Some(<<>>)
        /\ (/\ Fed'
            /\ IsSome(TopicCleared(ev'))
            /\ to_lowercase(Unwrap(TopicCleared(ev'))) \in DOMAIN Before) =>
            LET id == to_lowercase(Unwrap(TopicCleared(ev')))
                cb == IF ev'.code = "Topic" THEN "topic_change" ELSE "topic"
            IN  /\ id \in DOMAIN channels'
                /\ channels'[id].topic = None
                /\ channels'[id].name = Before[id].name
                /\ channels'[id].users = Before[id].users
                /\ Specialised(calls') = CallsOf(calls', cb)
                /\ Cardinality(CallsOf(calls', cb)) = 1
                /\ \A i \in CallsOf(calls', cb) :
                        /\ calls'[i].channel = Some(channels'[id])
                        /\ calls'[i].args = <<None>> ]_vars

\* A Topic change with an empty text reached a channel that had a topic
\* and a member: the topic is gone, the member is still there.
C27_Witness ==
    /\ IsMsg(ev, "Topic", FALSE, 2)
    /\ ev.args[2] = <<>>
    /\ LET id == to_lowercase(ev.args[1])
       IN  /\ id \in DOMAIN calls[1].store
           /\ calls[1].store[id].topic = Some(txt)
           /\ calls[1].store[id].users # <<>>
           /\ id \in DOMAIN channels
           /\ channels[id].topic = None
           /\ channels[id].users = calls[1].store[id].users
    /\ CallsOf(calls, "topic_change") # {}

----------------------------------------------------------------------------
(* C29 *)

\* The steps of the dispatch thread: Dispatch::feed on an event.
DispatchStep(e) == e.type \in LifecycleTypes \cup {"Message"}

\* C29: the channel map, every member list, nickname, status and topic,
\* and the connection status change only in steps of the dispatch thread;
\* a call made by a handler's thread (channel, channels, name, topic,
\* users, user, nickname, status, close, raw and the command builders)
\* leaves all of them as they were, wherever it falls between the events.
C29_OnlyDispatchWrites ==
    [][ /\ (channels' # channels \/ status' # status) => DispatchStep(ev')
        /\ ev'.type \in {"Call", "Read"} =>
                /\ channels' = channels
                /\ status' = status ]_vars

\* A handler's thread closed the connection while the store held a member
\* and the status was still Connected.
C29_Witness ==
    /\ ev.type = "Call" /\ ev.code = "close"
    /\ ret = Some("Ok")
    /\ status = <<"Connected">>
    /\ \E id \in DOMAIN channels : channels[id].users # <<>>

----------------------------------------------------------------------------
(* C30 *)

\* C30: in its loop dispatch feeds the events of the Reader one at a time,
\* each exactly once and in the order of arrival (the k-th turn of the
\* loop feeds the k-th event, and a feed is finished before the next event
\* is taken), also after a Closed or a Disconnected event; it leaves the
\* loop, returning success, exactly when the Reader has no further event,
\* never before; and for a finite sequence it always returns.
C30_DispatchLoop ==
    /\ [][ /\ reader' = reader
           /\ (pc = "loop" /\ Fed /\ taken < Len(reader)) =>
                /\ pc' = "loop"
                /\ taken' = taken + 1
                /\ ev' = reader[taken']
           /\ (pc = "loop" /\ ~Fed) =>
                /\ pc' = "loop"
                /\ taken' = taken
                /\ ev' = reader[taken]
           /\ (pc = "loop" /\ Fed /\ taken = Len(reader)) =>
                /\ pc' = "done"
                /\ ret' = Some("Ok")
                /\ taken' = taken ]_vars
    /\ [](ret = Some("Ok") => (pc = "done" /\ taken = Len(reader)))
    /\ <>(pc = "done")

\* dispatch has returned success after three events, the first of them
\* Closed and the last one (a Ping) fed after it.
C30_Witness ==
    /\ pc = "done"
    /\ ret = Some("Ok")
    /\ Len(reader) = 3
    /\ taken = 3
    /\ reader[1].type = "Closed"
    /\ ev = reader[3]
    /\ ev.type = "Message"

----------------------------------------------------------------------------
(* C28 *)

\* C28: when the dispatch thread is about to invoke a callback it holds no
\* lock of the store (the channel map, a member list, a topic, a nickname,
\* a member's status, the connection status), and neither it nor a handler
\* that calls channel, channels, users, user, topic, nickname or status
\* from inside a callback ever asks for a lock the thread already holds:
\* such a call returns instead of waiting for its own caller.
C28_NoLockAcrossCallback ==
    todo # <<>> =>
        /\ Head(todo)[1] = "cb" => held = {}
        /\ Head(todo)[1] = "acq" => Head(todo)[2] \notin held
        /\ Head(todo)[1] = "ret" => held = {}

\* Inside user_mode_change, invoked after the store was updated, the
\* handler called Channel::user and holds the guards that call takes.
C28_Witness ==
    /\ ev.type = "Message" /\ ev.code = "Mode"
    /\ held = {"users", "nickname"}
    /\ \E i \in 1..Len(todo) : todo[i] = Back("user_mode_change")

----------------------------------------------------------------------------
(* C31 *)

\* C31: a Join with a user prefix for a channel in the store appends one
\* member with the sender's nickname and Normal status at the end of the
\* member list and invokes user_join exactly once with that channel and
\* that member; a Join for a channel that is not in the store changes
\* nothing and invokes no user_join.
C31_JoinAppendsAndNotifies ==
    [][ IsMsg(ev', "Join", TRUE, 1) =>
          LET id == to_lowercase(ev'.args[1])
              joined == ChannelUser_new(ev'.prefix.nickname, "Normal")
          IN  IF id \in DOMAIN channels
              THEN /\ channels' = [channels EXCEPT ![id].users =
                                     Append(@, joined)]
                   /\ Cardinality(CallsOf(calls', "user_join")) = 1
                   /\ \A i \in CallsOf(calls', "user_join") :
                         /\ calls'[i].channel = Some(channels'[id])
                         /\ calls'[i].user = Some(joined)
              ELSE /\ channels' = channels
                   /\ CallsOf(calls', "user_join") = {} ]_vars

----------------------------------------------------------------------------
(* C32 *)

\* The member list without the member at position p.
Without(users, p) ==
    [i \in 1..(Len(users) - 1) |-> IF i < p THEN users[i] ELSE users[i + 1]]

\* The positions of the members named n, by exact comparison.
Named(users, n) == {i \in 1..Len(users) : users[i].nickname = n}

\* C32 as stated: Channel::user(n) returns a member if and only if the
\* list holds a member whose nickname equals n exactly, and the member
\* returned has nickname n; users() lists the members in insertion order,
\* and removing a member keeps the relative order of the others; name()
\* returns the creation name and topic() the last non-empty topic set: what
\* topic() returns is none before any topic is set, becomes the text of a
\* set_topic with a non-empty text, and is left as it was by a set_topic
\* with the empty text.
C32_LastNonEmptyTopic ==
    /\ channels[UnderTest].name = ev.args[1]
    /\ [][ LET c == channels[UnderTest]
               d == channels'[UnderTest]
               a == ev'.args
           IN  /\ d.name = c.name
               /\ ev'.code = "name" => ret' = Some(c.name)
               /\ ev'.code = "user" =>
                    /\ IsSome(ret'[1]) <=> Named(c.users, a[1]) # {}
                    /\ IsSome(ret'[1]) => ret'[1][1].nickname = a[1]
               /\ ev'.code = "users" => ret' = Some(c.users)
               /\ ev'.code = "add_user" =>
                    d.users = Append(c.users, ChannelUser_new(a[1], a[2]))
               /\ ev'.code = "remove_user" =>
                    IF Named(c.users, a[1]) = {} THEN d.users = c.users
                    ELSE \E p \in Named(c.users, a[1]) :
                            d.users = Without(c.users, p)
               /\ ev'.code \notin {"add_user", "remove_user"} =>
                    d.users = c.users
               /\ ev'.code = "set_topic" =>
                    d.topic = IF a[1] = <<>> THEN c.topic ELSE Some(a[1])
               /\ ev'.code # "set_topic" => d.topic = c.topic
               /\ ev'.code = "topic" => ret' = Some(c.topic) ]_vars

\* C32: Channel::user(n) returns a member if and only if the list holds a
\* member whose nickname equals n exactly (case-sensitive), and the member
\* returned is one of the list and has nickname n; users() lists the
\* members in insertion order (add_user appends at the end, nothing else
\* adds or reorders), and removing a member keeps the relative order of the
\* others; name() returns the name given at creation; topic() returns the
\* topic last set when that one is non-empty, and none when the last one
\* set is empty or none was set.
C32_ChannelAccessors ==
    /\ channels[UnderTest].name = ev.args[1]
    /\ [][ LET c == channels[UnderTest]
               d == channels'[UnderTest]
               a == ev'.args
           IN  /\ d.name = c.name
               /\ ev'.code = "name" => ret' = Some(c.name)
               /\ ev'.code = "user" =>
                    /\ IsSome(ret'[1]) <=> Named(c.users, a[1]) # {}
                    /\ IsSome(ret'[1]) =>
                         /\ ret'[1][1].nickname = a[1]
                         /\ \E i \in 1..Len(c.users) : c.users[i] = ret'[1][1]
               /\ ev'.code = "users" => ret' = Some(c.users)
               /\ ev'.code = "add_user" =>
                    d.users = Append(c.users, ChannelUser_new(a[1], a[2]))
               /\ ev'.code = "remove_user" =>
                    IF Named(c.users, a[1]) = {} THEN d.users = c.users
                    ELSE \E p \in Named(c.users, a[1]) :
                            d.users = Without(c.users, p)
               /\ ev'.code \notin {"add_user", "remove_user"} =>
                    d.users = c.users
               /\ ev'.code = "set_topic" =>
                    d.topic = IF a[1] = <<>> THEN None ELSE Some(a[1])
               /\ ev'.code # "set_topic" => d.topic = c.topic
               /\ ev'.code = "topic" => ret' = Some(c.topic) ]_vars

\* The channel created as "#A" holds a, b and a second a, has the topic
\* "u", and the lookup of "A" has just returned nothing.
C32_Witness ==
    /\ ev.type = "Call" /\ ev.code = "user" /\ ev.args = <<<<"A">>>>
    /\ ret = Some(None)
    /\ UnderTest \in DOMAIN channels
    /\ channels[UnderTest].name = cAUpper
    /\ channels[UnderTest].topic = Some(<<"u">>)
    /\ Len(channels[UnderTest].users) = 3
    /\ channels[UnderTest].users[1].nickname = <<"a">>
    /\ channels[UnderTest].users[2].nickname = <<"b">>

----------------------------------------------------------------------------
(* C33 *)

\* C33: a Name-reply adds members only for non-empty tokens: an empty
\* trailing argument, leading, trailing or consecutive spaces, or a token
\* that is a sigil alone add no member with an empty nickname, so every
\* member in the store has a non-empty nickname.
C33_NoEmptyNickname ==
    \A id \in DOMAIN channels :
        \A i \in 1..Len(channels[id].users) :
            channels[id].users[i].nickname # <<>>

----------------------------------------------------------------------------
(* C34 *)

\* C34: a Nick message changes only nicknames: every renamed member keeps
\* its status and its position in the member list (the same object stays at
\* the same place), the number of members of each channel, the topics, the
\* names and the channel map are unchanged, and a member reference a
\* handler obtained before the rename reports, afterwards, what the store
\* reports at the member's place: the new nickname when the member is the
\* one renamed, with the status it had.
C34_NickRenamesInPlace ==
    [][ (Fed' /\ IsMsg(ev', "Nick", TRUE, 1)) =>
          LET old == ev'.prefix.nickname
              new == ev'.args[Len(ev'.args)]
          IN  /\ DOMAIN channels' = DOMAIN Before
              /\ status' = StatusBefore
              /\ \A id \in DOMAIN Before :
                    LET c == Before[id]
                        d == channels'[id]
                    IN  /\ d.name = c.name
                        /\ d.topic = c.topic
                        /\ Len(d.users) = Len(c.users)
                        /\ \A i \in 1..Len(c.users) :
                              /\ d.users[i].status = c.users[i].status
                              /\ d.users[i].nickname # c.users[i].nickname =>
                                    /\ c.users[i].nickname = old
                                    /\ d.users[i].nickname = new
                              /\ "oid" \in DOMAIN c.users[i] =>
                                    HasOid(d.users[i], c.users[i].oid)
              /\ (kept[2] # NoArc /\ "oid" \in DOMAIN kept[2][2]) =>
                    \A p \in MemberPlaces(Before, kept[2][2].oid) :
                        /\ kept'[2][2] = channels'[p[1]].users[p[2]]
                        /\ p[2] = Position(Before[p[1]].users, old, 1) =>
                              /\ kept'[2][2].nickname = new
                              /\ kept'[2][2].status = kept[2][2].status
                              /\ kept'[2][2].oid = kept[2][2].oid ]_vars

\* The handler took its reference to the operator a of "#a" before a Nick
\* from a to b; after it the reference reports b, still Operator, and b,
\* who was there before, is still second.
C34_Witness ==
    /\ IsMsg(ev, "Nick", TRUE, 1)
    /\ ev.prefix.nickname = nA /\ ev.args = <<nB>>
    /\ DOMAIN channels = {cA, cB}
    /\ kept[2] = Arc(<<cA, 1>>, TaggedUser(nB, "Operator", 1))
    /\ channels[cA].users =
          << TaggedUser(nB, "Operator", 1), TaggedUser(nB, "Normal", 2) >>
    /\ channels[cB].users = << TaggedUser(nB, "Voice", 3) >>
    /\ calls[1].store[cA].users[1] = TaggedUser(nA, "Operator", 1)

----------------------------------------------------------------------------
(* C37 *)

\* The store holds neither the object x nor, when x is a channel, any of
\* its members.
Detached(x, chs) ==
    /\ MemberPlaces(chs, x.oid) = {}
    /\ ChannelPlaces(chs, x.oid) = {}
    /\ "users" \in DOMAIN x =>
          \A i \in 1..Len(x.users) :
              "oid" \in DOMAIN x.users[i] =>
                  MemberPlaces(chs, x.users[i].oid) = {}

\* C37: a Disconnected event empties the channel map without altering the
\* channel objects: a channel reference a handler obtained before it still
\* reports the members and the topic it had, and the events dispatched
\* afterwards, those that name the same channel included, fill a new
\* channel object: the old one is never in the map again and never changes.
C37_DisconnectKeepsObjects ==
    [][ /\ ev'.type = "Disconnected" =>
              /\ Fed' => channels' = <<>>
              /\ \A i \in 1..2 :
                    kept[i] # NoArc =>
                        /\ kept'[i] # NoArc
                        /\ kept'[i][2] = kept[i][2]
        /\ \A i \in 1..2 :
              (/\ kept[i] # NoArc
               /\ "oid" \in DOMAIN kept[i][2]
               /\ Detached(kept[i][2], channels)
               /\ ev'.type \notin {"Call", "Read"}) =>
                    /\ kept'[i] = kept[i]
                    /\ Detached(kept'[i][2], channels') ]_vars

\* The handler holds the channel "#a" it got before the disconnect, with
\* the topic "t" and the members a and b; the store holds another "#a",
\* made by a name reply after the disconnect, with the member b alone and
\* the topic "u" a Topic message has just set.
C37_Witness ==
    /\ IsMsg(ev, "Topic", TRUE, 2)
    /\ kept[1] = Arc(<<>>, TaggedChannel(cA, Some(txt),
                                         << TaggedUser(nA, "Operator", 1),
                                            TaggedUser(nB, "Normal", 2) >>,
                                         10))
    /\ cA \in DOMAIN channels
    /\ channels[cA] = [name |-> cA, topic |-> Some(<<"u">>),
                       users |-> << ChannelUser_new(nB, "Normal") >>]

----------------------------------------------------------------------------
(* C36 *)

\* The commands of the identification, in the order dispatch sends them.
Identification(cfg) ==
    (IF cfg.password # <<>> THEN << PassLine(cfg.password) >> ELSE <<>>)
    \o << NickLine(cfg.nickname), UserLine(cfg.username, cfg.realname) >>

\* C36: before the first event is dispatched, dispatch sends PASS (only
\* when the password is not empty), then NICK, then USER, in this order;
\* if one of the sends fails dispatch returns that failure, sends nothing
\* further, dispatches no event and invokes no handler callback, ever.
C36_IdentifyBeforeLoop ==
    /\ [][ /\ pc = "start" =>
                /\ calls' = <<>>
                /\ taken' = 0
                /\ Len(sent') <= Len(Identification(settings))
                /\ \A i \in 1..Len(sent') :
                      /\ sent'[i][1] = Wire(Identification(settings)[i])
                      /\ i < Len(sent') => sent'[i][2]
                /\ pc' = "loop" <=>
                      /\ Len(sent') = Len(Identification(settings))
                      /\ \A i \in 1..Len(sent') : sent'[i][2]
                /\ pc' = "loop" => ret' = None
                /\ pc' # "loop" =>
                      /\ pc' = "done"
                      /\ ret' \in {Some("ConnectError"), Some("WriterError"),
                                   Some("Multiline")}
                      /\ ret' = Some("WriterError") =>
                            /\ sent' # <<>>
                            /\ ~sent'[Len(sent')][2]
                      /\ ret' = Some("Multiline") =>
                            \E i \in 1..Len(Identification(settings)) :
                                /\ Len(sent') = i - 1
                                /\ Breaks(Identification(settings)[i]) > 0
           /\ taken' # taken => pc = "loop"
           /\ pc = "done" => UNCHANGED vars ]_vars
    /\ []((pc = "done" /\ ret # Some("Ok")) => (calls = <<>> /\ taken = 0))

\* dispatch has returned the Writer's error: PASS was accepted, NICK was
\* refused, USER was not sent, and of the events waiting in the Reader none
\* was dispatched.
C36_Witness ==
    /\ pc = "done"
    /\ ret = Some("WriterError")
    /\ settings.password = <<"p">>
    /\ sent = << <<Wire(PassLine(<<"p">>)), TRUE>>,
                 <<Wire(NickLine(settings.nickname)), FALSE>> >>
    /\ calls = <<>>
    /\ taken = 0
    /\ Len(reader) = MaxEvents

----------------------------------------------------------------------------
(* C35 *)

\* The order of the locks: the channel map (and the connection status,
\* which is never held with another lock), then a channel's member list or
\* topic, then a member's nickname or status.
Rank(l) ==
    CASE l[1] \in {"channels", "status"} -> 1
      [] l[1] \in {"users", "topic"} -> 2
      [] l[1] \in {"nickname", "member_status"} -> 3

\* The lock a thread is about to take, if any.
Wanted(th) ==
    IF todo[th] # <<>> /\ Head(todo[th])[1] = "acq"
    THEN {Head(todo[th])[2]} ELSE {}

\* Every thread of D waits for a lock that a thread of D holds.
Stuck(D) ==
    \A th \in D :
        /\ Wanted(th) # {}
        /\ Wanted(th) \subseteq UNION {held[u] : u \in D}

\* C35: with the dispatch thread dispatching events and other threads
\* calling the public read operations (the command builders take no lock of
\* the store), no deadlock is reachable: no set of threads wait for each
\* other; a thread that holds locks takes a further one only in the order
\* channel map, then member list or topic, then nickname or status of a
\* member, never the reverse; and a thread between two operations holds no
\* lock: every lock taken is released by the operation that took it.
C35_NoDeadlock ==
    /\ \A D \in (SUBSET Threads) \ {{}} : ~Stuck(D)
    /\ \A th \in Threads :
          /\ \A l \in Wanted(th) : \A h \in held[th] : Rank(h) < Rank(l)
          /\ todo[th] = <<>> => held[th] = {}

\* The dispatch thread holds the channel map and is about to take the
\* member list of #a, which one spawned thread holds, while that thread
\* waits for the nickname of a member of #a the other spawned thread is
\* reading.
C35_Witness ==
    /\ held["dispatch"] = {<<"channels", <<>>>>}
    /\ Wanted("dispatch") = {<<"users", <<cA>>>>}
    /\ held["spawned1"] = {<<"users", <<cA>>>>}
    /\ Wanted("spawned1") = {<<"nickname", <<cA, nA>>>>}
    /\ held["spawned2"] = {<<"nickname", <<cA, nA>>>>}

====
